---- MODULE Spec2Model ----
(***************************************************************************)
(* Model of the questions service of PluxCo/testing_platform_old: the      *)
(* AnswerRecord state machine (schedule/generators.py, Session), the       *)
(* connector that hands questions to the transport and correlates the      *)
(* replies (connector/telegram_connector.py, TelegramConnector) and the    *)
(* scheduling thread (schedule/schedule.py, Schedule).                     *)
(*                                                                         *)
(* Threads: the Schedule thread ("disp") and the request threads of the    *)
(* Flask server ("h1", "h2"; flask_app.run serves requests in threads).    *)
(* One action is one access to shared state (a dict operation on           *)
(* alive_sessions, or one database transaction) together with the local    *)
(* computation around it.  A database transaction (with create_session()   *)
(* ... commit) is atomic.  The transport hands out message ids that it     *)
(* never hands out twice.                                                  *)
(***************************************************************************)
EXTENDS Integers, Sequences, FiniteSets, TLC

\* ------------------------------------------------------------ bounds
MaxAnswers == 3    \* rows of the answers table
MaxTokens == 3     \* message ids the transport hands out
MaxNow == 1        \* values of the database clock, 0..MaxNow
MaxTime == 9       \* ticks of the Schedule thread's clock, 0..MaxTime
DayLen == 3        \* times of day, 0..DayLen-1
MaxPeriod == 3     \* values of the time_period setting, 1..MaxPeriod
MaxCalls == 2      \* applications of the operation a specification applies
MaxRows == 5       \* rows of the answers table a specification starts from
MaxCount == 3      \* the count argument of next_bunch, 1..MaxCount
MaxStored == 2     \* rows of the table a Session's methods are applied to
MaxQueue == 2      \* questions in a Session's queue

\* datetime.weekday() ranges over 0..6 (week_days defaults to range(7)).
DaysInWeek == 7
\* np.exp gives 0.0 for an argument below -745.13 (a double's least
\* positive value is about exp(-744.44)).
ExpUnderflow == 745
\* The unit of the weights: 1/720 of a half tick per point, which the sums
\* of points and the pool sizes of the model divide.
WeightUnit == 720

\* Python's None, for the optional numbers (times, message ids, answer ids).
None == -1
\* Python's None, for the optional strings and objects.
NoneStr == "None"

\* ------------------------------------------------------------ store
\* AnswerState
NOT_ANSWERED == "NOT_ANSWERED"
TRANSFERRED == "TRANSFERRED"
ANSWERED == "ANSWERED"
AnswerState == {NOT_ANSWERED, TRANSFERRED, ANSWERED}

\* QuestionType
TEST == "TEST"
OPEN == "OPEN"

\* The questions table: question 1 is a TEST question of group "g1" whose
\* answer is "1", question 2 an OPEN question of group "g2".
Questions ==
  [q \in {1, 2} |->
     IF q = 1 THEN [type |-> TEST, answer |-> "1", groups |-> {"g1"}, level |-> 1]
              ELSE [type |-> OPEN, answer |-> "", groups |-> {"g2"}, level |-> 2]]

\* Person.get_all_people(), in the order the cycle visits them, and the
\* persons' group memberships (group, target level).
People == <<"p1", "p2">>
Persons == {People[n] : n \in 1..Len(People)}
PersonGroups == [p \in Persons |-> IF p = "p1" THEN {<<"g1", 1>>} ELSE {<<"g2", 1>>}]

\* The texts an inbound answer can carry: str(button_id) or str(text).
Texts == {"1", "2"}

\* The threads.
Handlers == {"h1", "h2"}
Procs == {"disp"} \cup Handlers

\* AnswerType and SessionState of the connector.
BUTTON == "BUTTON"
MESSAGE == "MESSAGE"
REPLY == "REPLY"
PENDING == "PENDING"
SOPEN == "OPEN"
CLOSE == "CLOSE"

VARIABLES
  answers,         \* the answers table: row id -> AnswerRecord
  questions,       \* the questions table: question id -> Question
  alive_sessions,  \* TelegramConnector.alive_sessions: message id -> (session, record)
  local,           \* each thread's position and local variables
  now,             \* datetime.now() as the database transactions read it
  nextToken,       \* the next message id the transport hands out
  regs,            \* history: message id -> answers registered through it
  clock,           \* datetime.now() as the Schedule thread reads it
  previous_call,   \* Schedule.previous_call
  every,           \* Schedule._every
  week_days,       \* Schedule._week_days
  from_time,       \* Schedule._from_time
  to_time,         \* Schedule._to_time
  last_fired,      \* history: the tick at which task() was last called
  fired,           \* history: whether the last tick called task()
  spc,             \* the Schedule thread's position in run
  body,            \* history: how the last call of task() went
  settings,        \* Settings(): the settings provider's current values
  calls,           \* history: calls of the operation a specification applies
  bunch,           \* history: the last call of next_bunch and what it gave
  op,              \* history: the last call of a Session method and what it met
  call             \* the call of next_bunch that has its pool and not yet its weights

coreVars == <<answers, alive_sessions, local, now, nextToken, regs>>
schedVars == <<clock, previous_call, every, week_days, from_time, to_time, last_fired, fired,
               spc, body, settings>>
vars == <<answers, alive_sessions, local, now, nextToken, regs,
          clock, previous_call, every, week_days, from_time, to_time, last_fired, fired,
          spc, body, settings, calls, questions, bunch, op, call>>

\* What the threads of the service leave alone: the questions table, which
\* only the questions API writes, and the history of the applied operation.
otherVars == <<calls, questions, bunch, op, call>>

\* ------------------------------------------------------------ helpers
Min(S) == CHOOSE x \in S : \A y \in S : x <= y
Range(s) == {s[n] : n \in 1..Len(s)}

\* A thread with nothing in hand.
IdleLocal ==
  [pc |-> "idle", sessions |-> <<>>, i |-> 1, rel |-> <<>>, acks |-> <<>>,
   token |-> None, text |-> NoneStr, sstate |-> NoneStr,
   session |-> NoneStr, answer |-> None, exc |-> NoneStr,
   added |-> 0, marked |-> 0, asked |-> <<>>, sends |-> 0]

\* ------------------------------------------------------------ AnswerRecord
\* AnswerRecord(question_id, person_id, ask_time, state): the other columns
\* take their defaults.
NewAnswerRecord(question_id, person_id, ask_time) ==
  [question_id |-> question_id, person_id |-> person_id, person_answer |-> NoneStr,
   answer_time |-> None, ask_time |-> ask_time, state |-> NOT_ANSWERED, points |-> 0]

\* A calculate_points that leaves the points of an OPEN question's record
\* as they were.
calculate_points_keeps_open(rec) ==
  IF questions[rec.question_id].type = TEST
    THEN IF questions[rec.question_id].answer = rec.person_answer
           THEN [rec EXCEPT !.points = 1]
           ELSE [rec EXCEPT !.points = 0]
    ELSE rec


\* AnswerRecord.calculate_points with self.question given: the Question
\* object of the database session that loaded the record.
calculate_points_with(question, rec) ==
  IF question.type = TEST
    THEN IF question.answer = rec.person_answer
           THEN [rec EXCEPT !.points = 1]
           ELSE [rec EXCEPT !.points = 0]
    ELSE [rec EXCEPT !.points = 0]

\* AnswerRecord.calculate_points
calculate_points(rec) ==
  IF questions[rec.question_id].type = TEST
    THEN IF questions[rec.question_id].answer = rec.person_answer
           THEN [rec EXCEPT !.points = 1]
           ELSE [rec EXCEPT !.points = 0]
    ELSE [rec EXCEPT !.points = 0]

\* ------------------------------------------------------------ generators
\* A query for the due records without its ORDER BY.
_get_planned_unordered(person) ==
  LET due == {a \in DOMAIN answers : /\ answers[a].person_id = person
                                     /\ answers[a].ask_time <= now
                                     /\ answers[a].state = NOT_ANSWERED}
      n == Cardinality(due)
  IN {s \in [1..n -> due] : \A x, y \in 1..n : x # y => s[x] # s[y]}

\* GeneratorInterface._get_planned: the ids of the person's due records, in
\* every order that ORDER BY ask_time allows (rows of equal ask_time come in
\* an order the query does not fix).  A NULL ask_time satisfies no comparison.
DueIds(person) ==
  {a \in DOMAIN answers : /\ answers[a].person_id = person
                          /\ answers[a].ask_time # None
                          /\ answers[a].ask_time <= now
                          /\ answers[a].state = NOT_ANSWERED}

_get_planned(person) ==
  LET due == DueIds(person)
      n == Cardinality(due)
  IN {s \in [1..n -> due] :
        /\ \A x, y \in 1..n : x # y => s[x] # s[y]
        /\ \A x, y \in 1..n : x < y => answers[s[x]].ask_time <= answers[s[y]].ask_time}

\* A pool query without its notin_ clause.
_get_group_questions(person, planned) ==
  {q \in DOMAIN questions : \E pg \in PersonGroups[person] : pg[1] \in questions[q].groups}

\* A pool query without its group clause.
_get_unplanned_questions(person, planned) ==
  {q \in DOMAIN questions : \A n \in 1..Len(planned) : answers[planned[n]].question_id # q}

\* GeneratorInterface._get_person_questions: the questions of the person's
\* groups whose id is not among the planned records' question ids.
_get_person_questions(person, planned) ==
  {q \in DOMAIN questions :
     /\ \E pg \in PersonGroups[person] : pg[1] \in questions[q].groups
     /\ \A n \in 1..Len(planned) : answers[planned[n]].question_id # q}

\* A draw that ignores the size it is asked for.
ChoiceWhole(pool, size) ==
  {s \in [1..Cardinality(pool) -> pool] :
     \A x, y \in 1..Cardinality(pool) : x # y => s[x] # s[y]}

\* np.random.choice(pool, size, replace=False): every ordered sample of
\* distinct questions.
Choice(pool, size) ==
  {s \in [1..size -> pool] : \A x, y \in 1..size : x # y => s[x] # s[y]}

AsRecords(planned) == [n \in 1..Len(planned) |-> [kind |-> "A", id |-> planned[n]]]
AsQuestions(qs) == [n \in 1..Len(qs) |-> [kind |-> "Q", id |-> qs[n]]]

\* SimpleRandomGenerator.next_bunch: the lists the call can return.  With an
\* empty pool np.random.choice is asked for no sample and gives none.
SimpleRandomGenerator_next_bunch(person, count) ==
  UNION {
    IF Len(planned) >= count
      THEN {AsRecords(SubSeq(planned, 1, count))}
      ELSE LET pool == _get_person_questions(person, planned)
               size == IF count - Len(planned) <= Cardinality(pool)
                         THEN count - Len(planned) ELSE Cardinality(pool)
           IN {AsRecords(planned) \o AsQuestions(qs) : qs \in Choice(pool, size)}
    : planned \in _get_planned(person)}

\* The person's rows for a question.
RowsOf(person, q) ==
  {a \in DOMAIN answers : answers[a].person_id = person /\ answers[a].question_id = q}

RECURSIVE SumPoints(_)
SumPoints(rows) ==
  IF rows = {} THEN 0
  ELSE LET a == CHOOSE x \in rows : TRUE
       IN answers[a].points + SumPoints(rows \ {a})

\* func.sum(AnswerRecord.points) over the person's rows for the question
\* (lines 136-138).  Without rows the sum is None, written 0: the test of
\* line 140 takes the two alike.
points_sum(person, q) == SumPoints(RowsOf(person, q))

\* last_answer.ask_time (lines 141-145): the largest ask_time of the rows.
LastAskTime(person, q) ==
  CHOOSE t \in {answers[a].ask_time : a \in RowsOf(person, q)} :
    \A a \in RowsOf(person, q) : answers[a].ask_time <= t

\* first_answer.ask_time (lines 147-149): the query has no ORDER BY, and
\* SQLite gives the rows of such a scan in rowid order.
FirstAskTime(person, q) == answers[Min(RowsOf(person, q))].ask_time

\* datetime.datetime.now() - ask_time, in half ticks.  The call reads the
\* clock after every row whose ask_time is now or earlier was written, so
\* such a row lies in the past; a later ask_time is that of a row planned
\* ahead, and the difference is negative.
Elapsed(ask_time) == 2 * (now - ask_time) + 1

\* Whether line 151 raises ZeroDivisionError: a timedelta divided by a
\* time_period of no length.
PeriodIsZero == settings.time_period = 0

\* The target levels of the person's groups that are groups of the
\* question, as line 153 finds them when it loads question.groups.
TargetLevels(person, q) ==
  {pg[2] : pg \in {g \in PersonGroups[person] : g[1] \in questions[q].groups}}

\* max(gl for pg, gl in person.groups if pg in [...]) (lines 152-153); max
\* of no value raises ValueError.
max_target_level(person, q) ==
  CHOOSE m \in TargetLevels(person, q) : \A l \in TargetLevels(person, q) : l <= m

\* Whether the loop over the pool (lines 134-162) raises: only a question
\* with points reaches lines 151-153.
WeightsRaise(person, pool) ==
  \E q \in pool : /\ points_sum(person, q) # 0
                  /\ PeriodIsZero \/ TargetLevels(person, q) = {}

\* Whether the factor of line 156 is nan: np.log2 of periods_count + 4 is
\* nan or -inf when that is not positive, and so are the cosine and the
\* power.  periods_count is the elapsed time since first_answer over
\* time_period (a tick is two half ticks).
PlanningIsNaN(person, q) ==
  Elapsed(FirstAskTime(person, q)) + 4 * (2 * settings.time_period) <= 0

\* Whether the factor of line 158, np.exp(-0.5 * d ** 2), is 0.0: the
\* exponential of a double underflows to zero below -ExpUnderflow.
LevelIsZero(person, q) ==
  LET d == max_target_level(person, q) - questions[q].level
  IN d * d > 2 * ExpUnderflow

\* A weight without a value (nan), and a weight of v units.
NaN == [nan |-> TRUE, v |-> 0]
Value(v) == [nan |-> FALSE, v |-> v]

\* probabilities[i] after the loop (lines 136-162):
\*   (now - last_answer.ask_time).total_seconds() / points_sum
\*     * (|cos(..)| ** (..) + 0.001) * exp(-0.5 * (..) ** 2)
\* for a question with points, None (nan) for one without.  The 0.001 is
\* added to the second factor (** binds tighter than +, and p *= takes the
\* whole right side), so the weight has the sign of the elapsed time and
\* is zero when the third factor is.  The second factor lies in
\* [0.001, 1.001] and the third in [0, 1]; the weight is kept up to their
\* sizes, in units that make the divisions exact.
Weight(person, q) ==
  IF points_sum(person, q) = 0 THEN NaN
  ELSE IF PlanningIsNaN(person, q) THEN NaN
  ELSE IF LevelIsZero(person, q) THEN Value(0)
  ELSE Value(Elapsed(LastAskTime(person, q)) * (WeightUnit \div points_sum(person, q)))

\* with_val (line 166): the questions whose weight has a value.
with_val(person, pool) == {q \in pool : ~Weight(person, q).nan}

RECURSIVE SumWeights(_, _)
SumWeights(person, qs) ==
  IF qs = {} THEN 0
  ELSE LET q == CHOOSE x \in qs : TRUE
       IN Weight(person, q).v + SumWeights(person, qs \ {q})

MaxWeight(person, qs) ==
  CHOOSE m \in {Weight(person, q).v : q \in qs} :
    \A q \in qs : Weight(person, q).v <= m


\* increased_avg (lines 167-173).
increased_avg(person, pool) ==
  LET seen == with_val(person, pool)
  IN IF seen = {} THEN 1
     ELSE (SumWeights(person, seen)
             + (Cardinality(pool) - Cardinality(seen)) * MaxWeight(person, seen))
            \div Cardinality(pool)

\* probabilities after line 175, before the division by their sum.
probabilities(person, pool) ==
  LET avg == increased_avg(person, pool)
  IN [q \in pool |-> IF Weight(person, q).nan THEN avg ELSE Weight(person, q).v]

RECURSIVE SumOver(_, _)
SumOver(f, qs) ==
  IF qs = {} THEN 0
  ELSE LET q == CHOOSE x \in qs : TRUE IN f[q] + SumOver(f, qs \ {q})

\* The questions np.random.choice can draw: those of probability not zero.
Drawable(p) == {q \in DOMAIN p : p[q] # 0}

\* Whether np.random.choice(person_questions, p=probabilities, size=size,
\* replace=False) raises ValueError (lines 176-182): after the division by
\* the sum, an entry is nan (the sum is zero), or negative (its sign is not
\* the sum's), or fewer entries than size are not zero.
ChoiceRaises(p, size) ==
  LET total == SumOver(p, DOMAIN p)
  IN \/ total = 0
     \/ \E q \in DOMAIN p : p[q] * total < 0
     \/ Cardinality(Drawable(p)) < size

\* Whether the selection from a pool that is not empty raises.
SelectionRaises(person, pool, size) ==
  WeightsRaise(person, pool) \/ ChoiceRaises(probabilities(person, pool), size)

\* Lines 134-184 on a pool that is not empty: the lists the call can
\* return (none when it raises).
select(person, planned, pool, count) ==
  LET size == IF count - Len(planned) <= Cardinality(pool)
                THEN count - Len(planned) ELSE Cardinality(pool)
      p == probabilities(person, pool)
  IN IF WeightsRaise(person, pool) \/ ChoiceRaises(p, size)
       THEN {}
       ELSE {AsRecords(planned) \o AsQuestions(qs) : qs \in Choice(Drawable(p), size)}


\* StatRandomGenerator.next_bunch: the lists the call can return (none when
\* it raises).
next_bunch(person, count) ==
  UNION {
    IF Len(planned) >= count
      THEN {AsRecords(SubSeq(planned, 1, count))}
      ELSE LET pool == _get_person_questions(person, planned)
           IN IF pool = {}
                THEN {AsRecords(planned)}
                ELSE select(person, planned, pool, count)
    : planned \in _get_planned(person)}

\* Whether StatRandomGenerator.next_bunch raises: it has fewer than count due
\* records, a pool that is not empty, and a selection that raises.
NextBunchRaises(person, count) ==
  \E planned \in _get_planned(person) :
    LET pool == _get_person_questions(person, planned)
    IN /\ Len(planned) < count
       /\ pool # {}
       /\ SelectionRaises(person, pool,
                          IF count - Len(planned) <= Cardinality(pool)
                            THEN count - Len(planned) ELSE Cardinality(pool))

\* ------------------------------------------------------------ Session
\* Session.generate_questions: the queues the call can leave in _questions.
generate_questions(person) == next_bunch(person, 1)

\* Whether Session.generate_questions raises what its generator raises.
GenerateRaises(person) == NextBunchRaises(person, 1)

\* A marking that stamps ask_time whether or not the row has one.
mark_always_stamps(rec, t) == [rec EXCEPT !.state = TRANSFERRED, !.ask_time = t]

\* Session.mark_question_as_transferred, on the row it loads.
mark_question_as_transferred(rec, t) ==
  LET r == [rec EXCEPT !.state = TRANSFERRED]
  IN IF r.ask_time = None THEN [r EXCEPT !.ask_time = t] ELSE r

\* A register_answer that stamps ask_time as well.
register_answer_restamps(rec, user_answer, t) ==
  IF user_answer # NoneStr
    THEN calculate_points([rec EXCEPT !.person_answer = user_answer,
                                      !.state = ANSWERED,
                                      !.answer_time = t,
                                      !.ask_time = t])
    ELSE rec

\* Session.register_answer, on the row it loads.
register_answer(rec, user_answer, t) ==

  IF user_answer # NoneStr
    THEN calculate_points([rec EXCEPT !.person_answer = user_answer,
                                      !.state = ANSWERED,
                                      !.answer_time = t])
    ELSE rec

\* A generate_questions that writes the row of every bare question it
\* queues, at once.
RECURSIVE generate_inserts_candidates(_, _, _)
generate_inserts_candidates(table, sessions, t) ==
  IF sessions = <<>>
    THEN table
    ELSE LET s == sessions[1]
             grown == IF s.questions # <<>> /\ s.questions[1].kind = "Q"
                        THEN Append(table, NewAnswerRecord(s.questions[1].id, s.person, t))
                        ELSE table
         IN generate_inserts_candidates(grown, Tail(sessions), t)

\* The answers table after the sessions' generate_questions: next_bunch
\* and the queries under it only select (lines 36-49, 60-66 and 120-150),
\* and generate_questions only assigns the queue, so the rows are those it
\* found.
generate_questions_rows(table, sessions, t) == table

\* ------------------------------------------------------------ Schedule.task
\* The lists task's loop over the persons can build: for each person, in
\* order, Session(person) after session.generate_questions().
GeneratedSessions ==
  LET n == Len(People)
      queues == UNION {generate_questions(People[m]) : m \in 1..n}
  IN {[m \in 1..n |-> [person |-> People[m], questions |-> f[m]]] :
        f \in {g \in [1..n -> queues] : \A m \in 1..n : g[m] \in generate_questions(People[m])}}

\* Whether task's loop over the persons raises: generate_questions raises
\* for one of them, and the exception leaves the loop for the except clause
\* of line 64, past the call of transfer.
TaskRaises == \E m \in 1..Len(People) : GenerateRaises(People[m])

\* task's loop over the persons (lines 56-61); task then calls
\* self.connector.transfer(users_sessions).  The loop only reads, and each
\* pass reads one person's rows, so it is one step.
TaskGen ==
  LET me == local["disp"]
  IN /\ me.pc \in {"idle", "done"}
     /\ IF TaskRaises
          THEN /\ local' = [local EXCEPT !["disp"] =
                              [IdleLocal EXCEPT !.exc = "ValueError", !.pc = "done"]]
               /\ answers' = answers
          ELSE \E sessions \in GeneratedSessions :
                 /\ local' = [local EXCEPT !["disp"] =
                                [IdleLocal EXCEPT !.sessions = sessions, !.pc = "next"]]
                 /\ answers' = generate_questions_rows(answers, sessions, now)
     /\ UNCHANGED <<alive_sessions, now, nextToken, regs>>
     /\ UNCHANGED <<schedVars, otherVars>>

\* ------------------------------------------------------------ TelegramConnector.transfer
\* A next_question that writes a row for whatever it pops.
next_question_always_inserts(table, session, t) ==
  IF session.questions = <<>>
    THEN [current |-> None, table |-> table, rest |-> <<>>]
    ELSE [current |-> Len(table) + 1,
          table |-> Append(table,
                           NewAnswerRecord(IF session.questions[1].kind = "Q"
                                             THEN session.questions[1].id
                                             ELSE table[session.questions[1].id].question_id,
                                           session.person, t)),
          rest |-> Tail(session.questions)]

\* Session.next_question on the table as it stands: the record the call
\* returns (None for an empty queue), the table it leaves and what is left
\* of the session's queue.
next_question(table, session, t) ==
  IF session.questions = <<>>
    THEN [current |-> None, table |-> table, rest |-> <<>>]
  ELSE IF session.questions[1].kind = "Q"
    THEN [current |-> Len(table) + 1,
          table |-> Append(table, NewAnswerRecord(session.questions[1].id,
                                                  session.person, t)),
          rest |-> Tail(session.questions)]
  ELSE [current |-> session.questions[1].id, table |-> table,
        rest |-> Tail(session.questions)]

\* Whether transfer builds a message for the record next_question returned
\* (lines 71, 82): the record and its question exist and the question is
\* TEST or OPEN.
Deliverable(table, current) ==
  /\ current # None
  /\ table[current].question_id \in DOMAIN questions
  /\ questions[table[current].question_id].type \in {TEST, OPEN}

\* transfer's loop over the sessions from the n-th on (lines 69-90): the
\* table it leaves, message_relation, and the persons whose next_question
\* it called, in the order of the calls.
RECURSIVE Collect(_, _, _, _, _)
Collect(sessions, n, table, rel, t) ==
  IF n > Len(sessions)
    THEN [table |-> table, rel |-> rel, asked |-> <<>>]
    ELSE LET r == next_question(table, sessions[n], t)
             rest == Collect(sessions, n + 1, r.table,
                             IF Deliverable(r.table, r.current)
                               THEN Append(rel, [person |-> sessions[n].person,
                                                 answer |-> r.current])
                               ELSE rel,
                             t)
         IN [rest EXCEPT !.asked = <<sessions[n].person>> \o @]

\* transfer up to the post (lines 64-92): every session's next_question, and
\* the return when there is nothing to send.  Each pass writes at most one
\* new row, of its own person, so the loop is one step.  The table grows
\* up to MaxAnswers rows.
TransferNext(p) ==
  LET me == local[p]
      r == Collect(me.sessions, 1, answers, <<>>, now)
  IN /\ me.pc = "next"
     /\ Len(r.table) <= MaxAnswers \/ Len(r.table) = Len(answers)
     /\ answers' = r.table
     /\ local' = [local EXCEPT ![p] =
                    [me EXCEPT !.sessions = <<>>,
                               !.rel = r.rel,
                               !.asked = r.asked,
                               !.pc = IF r.rel = <<>> THEN "done" ELSE "send"]]
     /\ UNCHANGED <<alive_sessions, now, nextToken, regs>>
     /\ UNCHANGED <<schedVars, otherVars>>

\* The transport's acknowledgement of a batch of n messages of which those at
\* the positions in ok were delivered: a fresh message id at each of them,
\* None at the others.
Acks(n, ok, first) ==
  [j \in 1..n |-> IF j \in ok THEN first + Cardinality({m \in ok : m < j}) ELSE None]

\* The first position from i on whose message id is not None (the loop over
\* sent_messages passes the others without effect), or Len(acks) + 1.
NextSent(acks, i) ==
  Min({j \in i..Len(acks) : acks[j] # None} \cup {Len(acks) + 1})

\* self.alive_sessions[msg_id] = message_relation[i] (line 102)
InsertEntry(table, msg_id, entry) == (msg_id :> entry) @@ table

\* A correlation that ignores the position of the message id.
RelationAtFirst(rel, i) == rel[1]

\* The entry the loop over sent_messages stores for position i (line 102).
RelationAt(rel, i) == rel[i]

\* requests.post(f"{self.TG_API}/message", json=request), resp.json() and the
\* loop over sent_messages up to its first dict assignment (lines 95-102).
TransferSend(p) ==
  LET me == local[p]
  IN /\ me.pc = "send"
     /\ \E ok \in SUBSET (1..Len(me.rel)) :
          LET acks == Acks(Len(me.rel), ok, nextToken)
              j == NextSent(acks, 1)
          IN /\ nextToken + Cardinality(ok) - 1 <= MaxTokens
             /\ nextToken' = nextToken + Cardinality(ok)
             /\ IF j > Len(acks)
                  THEN /\ alive_sessions' = alive_sessions
                       /\ local' = [local EXCEPT ![p] =
                                      [me EXCEPT !.acks = acks, !.sends = me.sends + 1,
                                                 !.pc = "done"]]
                  ELSE /\ alive_sessions' =
                            InsertEntry(alive_sessions, acks[j], RelationAt(me.rel, j))
                       /\ local' = [local EXCEPT ![p] =
                                      [me EXCEPT !.acks = acks, !.i = j, !.added = 1,
                                                 !.sends = me.sends + 1, !.pc = "mark"]]
     /\ UNCHANGED <<answers, now, regs>>
     /\ UNCHANGED <<schedVars, otherVars>>

\* The post or the parse of its response raises: the exception leaves
\* transfer (task's except clause logs it; in a request nothing catches it).
TransferSendFails(p) ==
  LET me == local[p]
  IN /\ me.pc = "send"
     /\ local' = [local EXCEPT ![p] = [me EXCEPT !.exc = "RequestException", !.sends = me.sends + 1,
                               !.pc = "done"]]
     /\ UNCHANGED <<answers, alive_sessions, now, nextToken, regs>>
     /\ UNCHANGED <<schedVars, otherVars>>

\* session.mark_question_as_transferred(question) (line 104), and the loop's
\* passes up to the next message id that is not None.
TransferMark(p) ==
  LET me == local[p]
      id == me.rel[me.i].answer
      j == NextSent(me.acks, me.i + 1)
  IN /\ me.pc = "mark"
     /\ answers' = [answers EXCEPT ![id] = mark_question_as_transferred(@, now)]
     /\ local' = [local EXCEPT ![p] =
                    [me EXCEPT !.marked = me.marked + 1,
                               !.i = IF j > Len(me.acks) THEN me.i ELSE j,
                               !.pc = IF j > Len(me.acks) THEN "done" ELSE "map"]]
     /\ UNCHANGED <<alive_sessions, now, nextToken, regs>>
     /\ UNCHANGED <<schedVars, otherVars>>

\* The dict assignment of a later pass (line 102).
TransferMap(p) ==
  LET me == local[p]
  IN /\ me.pc = "map"
     /\ alive_sessions' =
          InsertEntry(alive_sessions, me.acks[me.i], RelationAt(me.rel, me.i))
     /\ local' = [local EXCEPT ![p] = [me EXCEPT !.added = me.added + 1, !.pc = "mark"]]
     /\ UNCHANGED <<answers, now, nextToken, regs>>
     /\ UNCHANGED <<schedVars, otherVars>>

\* ------------------------------------------------------------ TelegramConnector.register_answer
\* A lookup that leaves the entry in the table.
PeekEntry(table, msg_id) == table

\* A lookup that passes over a missing key in silence.
MissingKeySwallowed(msg_id) == NoneStr

\* self.alive_sessions.pop(key): the table the call leaves.
PopEntry(table, msg_id) == [t \in DOMAIN table \ {msg_id} |-> table[t]]

\* What self.alive_sessions.pop(key) raises when key is not in the dict.
MissingKey(msg_id) == "KeyError"

\* TelegramWebhookResource.post with a BUTTON or REPLY answer, up to the pop
\* of its message id (lines 111-114, 133-134).  A message id that is not a
\* key raises KeyError, which nothing catches: the request ends with it.
\* The request carries the answer's type (BUTTON or REPLY, which differ in
\* the field that holds the message id and in the message sent back), its
\* text and the session state.
ReceiveAnswer(h, msg_id) ==
  /\ local[h].pc \in {"idle", "done"}
  /\ IF msg_id \in DOMAIN alive_sessions
       THEN /\ alive_sessions' = PopEntry(alive_sessions, msg_id)
            /\ \E type \in {BUTTON, REPLY}, text \in Texts,
                  sstate \in {PENDING, SOPEN, CLOSE} :
                 local' = [local EXCEPT ![h] =
                             [IdleLocal EXCEPT !.token = msg_id, !.text = text,
                                               !.sstate = sstate,
                                               !.session = alive_sessions[msg_id].person,
                                               !.answer = alive_sessions[msg_id].answer,
                                               !.pc = "register"]]
       ELSE /\ alive_sessions' = alive_sessions
            /\ local' = [local EXCEPT ![h] =
                           [IdleLocal EXCEPT !.token = msg_id, !.exc = MissingKey(msg_id),
                                             !.pc = "done"]]
  /\ UNCHANGED <<answers, now, nextToken, regs>>
  /\ UNCHANGED <<schedVars, otherVars>>

\* TelegramWebhookResource.post with a MESSAGE answer: no lookup, session
\* stays None (lines 144-146); then the match on the session state (lines
\* 148-161), where CLOSE reads session.person of None.
ReceiveMessage(h, sstate) ==
  /\ local[h].pc \in {"idle", "done"}
  /\ local' = [local EXCEPT ![h] =
                 [IdleLocal EXCEPT !.exc = IF sstate = CLOSE THEN "AttributeError"
                                           ELSE NoneStr,
                                   !.pc = "done"]]
  /\ UNCHANGED <<answers, alive_sessions, now, nextToken, regs>>
  /\ UNCHANGED <<schedVars, otherVars>>

\* session.register_answer(question_answer, str(...)) (lines 115, 135).
Register(h) ==
  LET me == local[h]
  IN /\ me.pc = "register"
     /\ answers' = [answers EXCEPT ![me.answer] = register_answer(@, me.text, now)]
     /\ regs' = [regs EXCEPT ![me.token] = @ + 1]
     /\ local' = [local EXCEPT ![h] = [me EXCEPT !.text = NoneStr, !.pc = "reply"]]
     /\ UNCHANGED <<alive_sessions, now, nextToken>>
     /\ UNCHANGED <<schedVars, otherVars>>

\* A match that goes on to the next question unless the state is PENDING.
ContinuesUnlessPending(sstate) == sstate # PENDING

\* Whether the match on the session state goes on to the next question
\* (case SessionState.OPEN, lines 149-152).
Continues(sstate) == sstate = SOPEN

\* The message about the answer (lines 116-142) and the match on the session
\* state (lines 148-161): OPEN generates the session's questions and calls
\* transfer([session]); CLOSE sends the goodbye; PENDING does nothing.
Reply(h) ==
  LET me == local[h]
  IN /\ me.pc = "reply"
     /\ IF Continues(me.sstate) /\ GenerateRaises(me.session)
          THEN /\ local' = [local EXCEPT ![h] =
                              [IdleLocal EXCEPT !.exc = "ValueError", !.pc = "done"]]
               /\ answers' = answers

        ELSE IF Continues(me.sstate)
          THEN \E qs \in generate_questions(me.session) :

                 LET sessions == <<[person |-> me.session, questions |-> qs]>>
                 IN /\ local' = [local EXCEPT ![h] =
                                   [IdleLocal EXCEPT !.sessions = sessions, !.pc = "next"]]
                    /\ answers' = generate_questions_rows(answers, sessions, now)
          ELSE /\ local' = [local EXCEPT ![h] = [IdleLocal EXCEPT !.pc = "done"]]
               /\ answers' = answers
     /\ UNCHANGED <<alive_sessions, now, nextToken, regs>>
     /\ UNCHANGED <<schedVars, otherVars>>

\* The HTTP status of a finished request: flask answers an exception that
\* leaves post with 500, and post returns 200.
HttpStatus(h) == IF local[h].exc = NoneStr THEN 200 ELSE 500

\* Time passes.
Tick ==
  /\ now < MaxNow
  /\ now' = now + 1
  /\ UNCHANGED <<answers, alive_sessions, local, nextToken, regs>>
  /\ UNCHANGED <<schedVars, otherVars>>

\* ------------------------------------------------------------ Schedule.run
\* now.time() and now.weekday() of a tick of the Schedule thread's clock.
TimeOfDay(t) == t % DayLen
Weekday(t) == (t \div DayLen) % DaysInWeek

\* The settings the service starts with (main.py, default_settings: every
\* time of day, every weekday) and the values an update can give them.
WeekDaySets == {0..(DaysInWeek - 1), {0}, {1, 2}}
Periods == 1..MaxPeriod
TimesOfDay == 0..(DayLen - 1)

\* A from_settings that takes the weekdays at the first call only.
from_settings_keeps_days(time_period, days, from, to) ==
  /\ every' = time_period
  /\ week_days' = week_days
  /\ from_time' = from
  /\ to_time' = to

\* Schedule.from_settings, called at start and by Settings on every update,
\* with the values it reads from Settings().
from_settings(time_period, days, from, to) ==
  /\ every' = time_period
  /\ week_days' = days
  /\ from_time' = from
  /\ to_time' = to

\* The arguments of POST /settings/ as the parser gives them: None for a
\* key the request leaves out ({None} for the list week_days).
SettingsArgs ==
  [time_period : Periods \cup {None}, from_time : TimesOfDay \cup {None},
   to_time : TimesOfDay \cup {None}, week_days : WeekDaySets \cup {{None}}]

\* An update that stores a key the request leaves out as well.
update_every_key(s, args) == args

\* current_settings.update(args) with the keys post keeps (v is not None).
update(s, args) ==
  [time_period |-> IF args.time_period # None THEN args.time_period ELSE s.time_period,
   from_time |-> IF args.from_time # None THEN args.from_time ELSE s.from_time,
   to_time |-> IF args.to_time # None THEN args.to_time ELSE s.to_time,
   week_days |-> IF args.week_days # {None} THEN args.week_days ELSE s.week_days]

\* Settings.update_settings: the provider's change notification, which
\* calls the handlers registered with add_update_handler; the one handler
\* is Schedule.from_settings (schedule.py line 24), which reads the
\* provider's values as they are then.
update_settings(s) == from_settings(s.time_period, s.week_days, s.from_time, s.to_time)

\* SettingsResource.post: the update of the provider and the notification.
FromSettings ==
  /\ \E args \in SettingsArgs :
       /\ settings' = update(settings, args)
       /\ update_settings(settings')
  /\ UNCHANGED <<clock, previous_call, last_fired, fired, spc, body, otherVars>>
  /\ UNCHANGED coreVars

\* self._from_time is None or self._from_time <= now.time() <= self._to_time
InWindow(t) ==
  from_time = None \/ (from_time <= TimeOfDay(t) /\ TimeOfDay(t) <= to_time)

\* self.previous_call is None or (now >= self.previous_call + self._every)
PeriodElapsed(t) ==
  previous_call = None \/ t >= previous_call + every

\* A weekday gate that lets every weekday pass.
WeekdayIgnored(t) == TRUE

\* self._week_days is None or now.weekday() in self._week_days (a missing
\* setting is written {None}; from_settings always stores a list).
WeekdayAllowed(t) ==
  week_days = {None} \/ Weekday(t) \in week_days

\* A pass that leaves previous_call as it found it.
PreviousCallKept(t) == previous_call

\* The value of previous_call after the pass of run's loop at t has gone
\* through its tests (line 47).
PreviousCallAfter(t) ==
  IF InWindow(t) /\ PeriodElapsed(t) THEN t ELSE previous_call

\* Whether the pass of run's loop at t calls self.task() (lines 45-49).
CallsTask(t) == InWindow(t) /\ PeriodElapsed(t) /\ WeekdayAllowed(t)

\* Whether the tests of the pass at t raise TypeError: the chained comparison
\* of line 45 reaches now.time() <= self._to_time with _to_time None (it stops
\* before that when _from_time <= now.time() is false).  Nothing catches it
\* in run, so the thread ends.
GateRaises(t) ==
  from_time # None /\ from_time <= TimeOfDay(t) /\ to_time = None

\* One pass of run's loop up to the call of self.task(), at a time t after
\* the previous pass (the loop sleeps a second between passes): lines 42-48.
Run ==
  /\ spc = "sleep"
  /\ \E t \in (clock + 1)..MaxTime :
       /\ clock' = t
       /\ IF GateRaises(t)
            THEN /\ spc' = "dead"
                 /\ fired' = FALSE
                 /\ UNCHANGED <<previous_call, last_fired>>
            ELSE /\ previous_call' = PreviousCallAfter(t)
                 /\ fired' = CallsTask(t)
                 /\ last_fired' = IF CallsTask(t) THEN t ELSE last_fired
                 /\ spc' = IF CallsTask(t) THEN "task" ELSE "sleep"
  /\ UNCHANGED <<every, week_days, from_time, to_time, body, settings, otherVars>>
  /\ UNCHANGED coreVars

\* The ways a call of task() can go: its body returns, or raises an
\* Exception (a persistence or transport error, a selector's ValueError).
BodyOutcomes == {"returned", "raised"}

\* A task() that lets the body's exception through to run.
TaskExitPropagates(outcome) == IF outcome = "raised" THEN "dead" ELSE "after"

\* Where run stands when task() is over: the try/except of lines 55-65
\* catches every Exception of the body and logs it, so task() returns.
TaskExit(outcome) == "after"

\* The call self.task() of line 49.  What the body does to the store and
\* the table is modelled by TaskGen and the steps of transfer; here only
\* the way it ends is kept.
task ==
  /\ spc = "task"
  /\ \E outcome \in BodyOutcomes :
       /\ body' = outcome
       /\ spc' = TaskExit(outcome)
  /\ UNCHANGED <<clock, previous_call, every, week_days, from_time, to_time,
                 last_fired, fired, settings, otherVars>>
  /\ UNCHANGED coreVars

\* self.previous_call = now after the call (line 50), now being the value
\* read at the top of the pass (line 42); then time.sleep(1).
AfterTask ==
  /\ spc = "after"
  /\ previous_call' = clock
  /\ spc' = "sleep"
  /\ UNCHANGED <<clock, every, week_days, from_time, to_time, last_fired, fired,
                 body, settings, otherVars>>
  /\ UNCHANGED coreVars

\* The process ends: flask_app.run returns in the main thread (main.py line
\* 23) and the interpreter exits.  The Schedule thread is a daemon thread
\* (line 17) whose loop is while True (line 41) with no flag to leave it, so
\* it is stopped wherever it stands; a call of task() under way is cut off.
Shutdown ==
  /\ spc \notin {"dead", "killed"}
  /\ spc' = "killed"
  /\ body' = IF spc = "task" THEN "interrupted" ELSE body
  /\ UNCHANGED <<clock, previous_call, every, week_days, from_time, to_time,
                 last_fired, fired, settings, otherVars>>
  /\ UNCHANGED coreVars

\* ------------------------------------------------------------ specifications
\* main.py's default_settings, in the model's units.
default_settings ==
  [time_period |-> 2, from_time |-> 0, to_time |-> DayLen - 1,
   week_days |-> 0..(DaysInWeek - 1)]

\* Schedule(...).from_settings() with main.py's default settings.
SchedInit ==

  /\ clock = 0
  /\ previous_call = None
  /\ every = 2
  /\ week_days = 0..(DaysInWeek - 1)
  /\ from_time = 0
  /\ to_time = DayLen - 1
  /\ last_fired = None
  /\ fired = FALSE
  /\ spc = "sleep"
  /\ body = NoneStr
  /\ settings = default_settings

CoreInit ==
  /\ answers = <<>>
  /\ alive_sessions = <<>>
  /\ local = [p \in Procs |-> IdleLocal]
  /\ now = 0
  /\ nextToken = 1
  /\ regs = [t \in 1..MaxTokens |-> 0]

\* No call of next_bunch yet.
NoBunch ==
  [generator |-> NoneStr, person |-> NoneStr, count |-> 0, raised |-> FALSE, items |-> <<>>]

\* No call of a Session method yet.
NoOp ==
  [name |-> NoneStr, table |-> <<>>, queue |-> <<>>, id |-> None, text |-> NoneStr,
   result |-> None, args |-> NoneStr]

\* No call of next_bunch between its pool and its weights.
NoCall == [person |-> NoneStr, count |-> 0, planned |-> <<>>, pool |-> {}]

OtherInit ==
  /\ calls = 0
  /\ questions = Questions
  /\ bunch = NoBunch
  /\ op = NoOp
  /\ call = NoCall


Init == CoreInit /\ SchedInit /\ OtherInit

\* The steps of the threads in hs and of the Schedule thread.
Threads(hs) ==
  \/ TaskGen
  \/ \E p \in {"disp"} \cup hs : TransferNext(p)
  \/ \E p \in {"disp"} \cup hs : TransferSend(p)
  \/ \E p \in {"disp"} \cup hs : TransferSendFails(p)
  \/ \E p \in {"disp"} \cup hs : TransferMap(p)
  \/ \E p \in {"disp"} \cup hs : TransferMark(p)
  \/ \E h \in hs, msg_id \in 1..MaxTokens : ReceiveAnswer(h, msg_id)
  \/ \E h \in hs, sstate \in {PENDING, SOPEN, CLOSE} : ReceiveMessage(h, sstate)
  \/ \E h \in hs : Register(h)
  \/ \E h \in hs : Reply(h)

\* The Schedule thread and one request thread, with time passing.
Next == Threads({"h1"}) \/ Tick

Spec == Init /\ [][Next]_vars

\* The Schedule thread and two request threads.
NextHandlers == Threads(Handlers)

SpecHandlers == Init /\ [][NextHandlers]_vars

\* The gate of the Schedule thread under settings that change while it runs.
NextSchedule == Run \/ task \/ AfterTask \/ FromSettings

SpecSchedule == Init /\ [][NextSchedule]_vars

\* The Schedule thread in a process that can end at any moment, started
\* with the time_period the settings file holds.
InitShutdown ==
  /\ CoreInit
  /\ OtherInit
  /\ clock = 0
  /\ previous_call = None
  /\ last_fired = None
  /\ fired = FALSE
  /\ spc = "sleep"
  /\ body = NoneStr
  /\ \E time_period \in Periods :
       /\ settings = [default_settings EXCEPT !.time_period = time_period]
       /\ every = time_period
  /\ week_days = default_settings.week_days
  /\ from_time = default_settings.from_time
  /\ to_time = default_settings.to_time

NextShutdown == Run \/ task \/ AfterTask \/ Shutdown

SpecShutdown == InitShutdown /\ [][NextShutdown]_vars


\* The gate of the Schedule thread under settings of which some are unset:
\* a window bound or the weekday list is None, as Schedule.__init__ leaves
\* them and as from_settings stores them when the setting holds no value.
UnsetSettings ==
  {c \in [from_time : TimesOfDay \cup {None}, to_time : TimesOfDay \cup {None},
          week_days : WeekDaySets \cup {{None}}, every : Periods] :
     c.from_time = None \/ c.to_time = None \/ c.week_days = {None}}

InitUnset ==
  /\ CoreInit
  /\ OtherInit
  /\ clock = 0
  /\ previous_call = None
  /\ last_fired = None
  /\ fired = FALSE
  /\ spc = "sleep"
  /\ body = NoneStr
  /\ \E c \in UnsetSettings :
       /\ from_time = c.from_time
       /\ to_time = c.to_time
       /\ week_days = c.week_days
       /\ every = c.every
  /\ settings = default_settings


NextUnset == Run \/ task \/ AfterTask

SpecUnset == InitUnset /\ [][NextUnset]_vars

\* The selectors applied to a stored table.  The questions table holds a
\* second question of group "g1", so that person p1's pool can hold two
\* questions while question 2 stays outside p1's groups.
Catalogue ==
  [q \in {1, 2, 3} |->
     IF q = 3 THEN [type |-> OPEN, answer |-> "", groups |-> {"g1"}, level |-> 2]
              ELSE Questions[q]]

\* A row planned for ask_time (POST /answer/, or next_question's own insert).
PlannedRow(question_id, person_id, ask_time) ==
  NewAnswerRecord(question_id, person_id, ask_time)

\* A row asked at ask_time and answered, with the points it earned.
AnsweredRow(question_id, person_id, ask_time, points) ==
  [NewAnswerRecord(question_id, person_id, ask_time)
     EXCEPT !.state = ANSWERED, !.person_answer = "1", !.answer_time = ask_time,
            !.points = points]

\* The rows the stored tables are made of: rows of person p1 planned for
\* now, earlier and later, rows p1 has answered, rows planned for p1 on a
\* question outside p1's groups, and a row of person p2.
RowList ==
  << PlannedRow(1, "p1", 0), PlannedRow(1, "p1", 1), PlannedRow(1, "p1", 2),
     PlannedRow(3, "p1", 0), PlannedRow(3, "p1", 1), PlannedRow(3, "p1", 2),
     AnsweredRow(1, "p1", 0, 1), AnsweredRow(1, "p1", 0, 0),
     AnsweredRow(3, "p1", 0, 1), AnsweredRow(3, "p1", 0, 0),
     PlannedRow(2, "p1", 1), PlannedRow(2, "p1", 0), PlannedRow(1, "p2", 0) >>

\* The table made of the rows of RowList at the indices in S, in that order.
TableOf(S) ==
  [k \in 1..Cardinality(S) |->
     RowList[CHOOSE i \in S : Cardinality({j \in S : j < i}) = k - 1]]

StoredTables ==
  {TableOf(S) : S \in {T \in SUBSET (1..Len(RowList)) : Cardinality(T) <= MaxRows}}

Generators == {"SimpleRandomGenerator", "StatRandomGenerator"}

\* generator.next_bunch(person, count) on the table as it stands.
NextBunch(generator, person, count) ==
  /\ calls < MaxCalls
  /\ calls' = calls + 1
  /\ IF generator = "StatRandomGenerator" /\ NextBunchRaises(person, count)
       THEN bunch' = [generator |-> generator, person |-> person, count |-> count,
                      raised |-> TRUE, items |-> <<>>]
       ELSE \E items \in (IF generator = "StatRandomGenerator"
                             THEN next_bunch(person, count)
                             ELSE SimpleRandomGenerator_next_bunch(person, count)) :
              bunch' = [generator |-> generator, person |-> person, count |-> count,
                        raised |-> FALSE, items |-> items]
  /\ UNCHANGED <<coreVars, schedVars, questions, op, call>>

InitBunch ==
  /\ answers \in StoredTables
  /\ alive_sessions = <<>>
  /\ local = [p \in Procs |-> IdleLocal]
  /\ now = 0
  /\ nextToken = 1
  /\ regs = [t \in 1..MaxTokens |-> 0]
  /\ SchedInit
  /\ calls = 0
  /\ questions = Catalogue
  /\ bunch = NoBunch
  /\ op = NoOp
  /\ call = NoCall

NextBunchCalls ==
  \/ \E generator \in Generators, person \in Persons, count \in 1..MaxCount :
       NextBunch(generator, person, count)
  \/ Tick

SpecBunch == InitBunch /\ [][NextBunchCalls]_vars

\* A dispatch cycle on a stored table.
InitCycle == InitBunch

NextCycle ==
  \/ TaskGen
  \/ TransferNext("disp")
  \/ TransferSend("disp")
  \/ TransferSendFails("disp")
  \/ TransferMap("disp")
  \/ TransferMark("disp")

SpecCycle == InitCycle /\ [][NextCycle]_vars

\* Session.mark_question_as_transferred applied to a stored row.  The rows
\* are those the method is written for, a row without ask_time among them
\* (the answers table of this schema holds none: ask_time is NOT NULL).
StoredRecords ==
  [question_id : {1}, person_id : {"p1"}, person_answer : {NoneStr, "1"},
   answer_time : {None, 0}, ask_time : {None, 0}, state : AnswerState, points : {0, 1}]

MarkRecord ==
  /\ calls < MaxCalls
  /\ calls' = calls + 1
  /\ answers' = [answers EXCEPT ![1] = mark_question_as_transferred(@, now)]
  /\ UNCHANGED <<alive_sessions, local, now, nextToken, regs, questions, bunch, op, call>>
  /\ UNCHANGED schedVars

InitMark ==
  /\ answers \in {<<rec>> : rec \in StoredRecords}
  /\ alive_sessions = <<>>
  /\ local = [p \in Procs |-> IdleLocal]
  /\ now = 0
  /\ nextToken = 1
  /\ regs = [t \in 1..MaxTokens |-> 0]
  /\ SchedInit
  /\ OtherInit

NextMark == MarkRecord \/ Tick

SpecMark == InitMark /\ [][NextMark]_vars

\* The methods of one Session applied to a stored table.  The rows are those
\* the service writes: planned, sent, and answered with the points the
\* answer earned; the row of question 2 with a point was answered when the
\* question's type was TEST (POST /question/<id> changes the type and
\* leaves the points).
SessionRows ==
  {PlannedRow(q, "p1", 0) : q \in {1, 2}}
    \cup {[PlannedRow(q, "p1", 0) EXCEPT !.state = TRANSFERRED] : q \in {1, 2}}
    \cup {AnsweredRow(1, "p1", 0, 1), AnsweredRow(2, "p1", 0, 0),
          AnsweredRow(2, "p1", 0, 1),
          [AnsweredRow(1, "p1", 0, 0) EXCEPT !.person_answer = "2"]}

SessionTables == UNION {[1..n -> SessionRows] : n \in 1..MaxStored}

\* The queues a session can hold over a table: bare questions and rows of
\* the table, in any order.
QueueItems(table) ==
  {[kind |-> "Q", id |-> q] : q \in DOMAIN Questions}
    \cup {[kind |-> "A", id |-> a] : a \in DOMAIN table}

SessionQueues(table) == UNION {[1..n -> QueueItems(table)] : n \in 0..MaxQueue}

\* session.next_question() of the session thread disp holds.
SessionNextQuestion ==
  LET me == local["disp"]
      r == next_question(answers, me.sessions[1], now)
  IN /\ calls < MaxCalls
     /\ Len(r.table) <= MaxAnswers
     /\ calls' = calls + 1
     /\ answers' = r.table
     /\ local' = [local EXCEPT !["disp"] =
                    [me EXCEPT !.sessions = <<[person |-> me.sessions[1].person,
                                               questions |-> r.rest]>>,
                               !.answer = r.current]]
     /\ op' = [NoOp EXCEPT !.name = "next_question", !.table = answers,
                           !.queue = me.sessions[1].questions, !.result = r.current]
     /\ UNCHANGED <<alive_sessions, now, nextToken, regs, questions, bunch, call>>
     /\ UNCHANGED schedVars

\* Session.register_answer(record, user_answer) with the text a connector
\* passes (lines 115 and 135 of the connector: always a str).
SessionRegisterAnswer(id, user_answer) ==
  /\ calls < MaxCalls
  /\ id \in DOMAIN answers
  /\ calls' = calls + 1
  /\ answers' = [answers EXCEPT ![id] = register_answer(@, user_answer, now)]
  /\ op' = [NoOp EXCEPT !.name = "register_answer", !.table = answers, !.id = id,
                        !.text = user_answer, !.result = id]
  /\ UNCHANGED <<alive_sessions, local, now, nextToken, regs, questions, bunch, call>>
  /\ UNCHANGED schedVars

InitSession ==
  /\ answers \in SessionTables
  /\ alive_sessions = <<>>
  /\ \E queue \in SessionQueues(answers) :
       local = [p \in Procs |->
                  IF p = "disp"
                    THEN [IdleLocal EXCEPT !.sessions = <<[person |-> "p1",
                                                          questions |-> queue]>>]
                    ELSE IdleLocal]
  /\ now = 0
  /\ nextToken = 1
  /\ regs = [t \in 1..MaxTokens |-> 0]
  /\ SchedInit
  /\ calls = 0
  /\ questions = Questions
  /\ bunch = NoBunch
  /\ op = NoOp
  /\ call = NoCall

NextSession ==

  \/ SessionNextQuestion
  \/ \E id \in 1..MaxAnswers, user_answer \in Texts \cup {""} :
       SessionRegisterAnswer(id, user_answer)
  \/ Tick

SpecSession == InitSession /\ [][NextSession]_vars

\* The answers API beside the dispatch cycle and the selectors.
\* AnswerListResource.post: a row planned for person_id and question_id at
\* ask_time, with state NOT_ANSWERED and the other columns at their
\* defaults.  The parser takes any str, int and ISO time; SQLite does not
\* enforce the foreign key of question_id.
AnswerListResource_post(person_id, question_id, ask_time) ==
  /\ Cardinality({a \in DOMAIN answers : answers[a].state # ANSWERED}) < MaxStored
  /\ answers' = Append(answers, NewAnswerRecord(question_id, person_id, ask_time))
  /\ UNCHANGED <<alive_sessions, local, now, nextToken, regs>>
  /\ UNCHANGED <<schedVars, otherVars>>

\* The rows person p1 has answered before the first request.
PlanRowList ==
  << AnsweredRow(1, "p1", 0, 1), AnsweredRow(3, "p1", 0, 1) >>

PlanTables ==
  {[k \in 1..Cardinality(S) |->
      PlanRowList[CHOOSE i \in S : Cardinality({j \in S : j < i}) = k - 1]] :
     S \in SUBSET (1..Len(PlanRowList))}

InitPlan ==
  /\ answers \in PlanTables
  /\ alive_sessions = <<>>
  /\ local = [p \in Procs |-> IdleLocal]
  /\ now = 0
  /\ nextToken = 1
  /\ regs = [t \in 1..MaxTokens |-> 0]
  /\ SchedInit
  /\ calls = 0
  /\ questions = Catalogue
  /\ bunch = NoBunch
  /\ op = NoOp
  /\ call = NoCall

NextPlan ==
  \/ \E question_id \in {1, 2}, ask_time \in 0..(MaxNow + 1) :
       AnswerListResource_post("p1", question_id, ask_time)
  \/ \E count \in 1..MaxCount : NextBunch("StatRandomGenerator", "p1", count)
  \/ NextCycle
  \/ Tick

SpecPlan == InitPlan /\ [][NextPlan]_vars

\* The settings resource with its requests and responses as they travel.
\* A request gives time_period as a float number of seconds and the times
\* as ISO texts.  The model holds a number of seconds in parts of a
\* microsecond, Resolution to the microsecond, and a stored period in
\* microseconds, timedelta's resolution; a text is the time it denotes and
\* the format it is written in.
Resolution == 3

\* datetime.timedelta(seconds=x): the nearest whole number of microseconds.
timedelta(seconds) == (seconds + 1) \div Resolution

\* timedelta.total_seconds()
total_seconds(td) == td * Resolution

\* The formats of a time text: "09:00:00" and "09:00".
Formats == {"HH:MM:SS", "HH:MM"}

\* datetime.time.fromisoformat(text)
fromisoformat(text) == text.time

\* time.isoformat(): hours, minutes and seconds.
isoformat(t) == [time |-> t, fmt |-> "HH:MM:SS"]

\* A time text the request leaves out.
NoText == [time |-> None, fmt |-> NoneStr]

\* The requests: each key given or left out (None); a period on the
\* microsecond grid or off it, a time in either format.
SettingsRequests ==
  [time_period : {None} \cup {Resolution * MaxPeriod - k : k \in 0..(Resolution - 1)},
   from_time : {NoText} \cup [time : {DayLen - 2}, fmt : Formats],
   to_time : {NoText} \cup [time : {DayLen - 2}, fmt : Formats],
   week_days : WeekDaySets \cup {{None}}]

\* args of SettingsResource.post after lines 42-51.
ParsedArgs(request) ==
  [time_period |-> IF request.time_period # None
                     THEN timedelta(request.time_period) ELSE None,
   from_time |-> IF request.from_time # NoText
                   THEN fromisoformat(request.from_time) ELSE None,
   to_time |-> IF request.to_time # NoText
                 THEN fromisoformat(request.to_time) ELSE None,
   week_days |-> request.week_days]

\* What SettingsResource.get returns for the provider's values s.
SettingsResponse(s) ==
  [time_period |-> total_seconds(s.time_period),
   from_time |-> isoformat(s.from_time),
   to_time |-> isoformat(s.to_time),
   week_days |-> s.week_days]

\* SettingsResource.get
SettingsResource_get ==
  /\ calls < MaxCalls
  /\ calls' = calls + 1
  /\ op' = [NoOp EXCEPT !.name = "SettingsResource.get",
                        !.result = SettingsResponse(settings)]
  /\ UNCHANGED <<coreVars, schedVars, questions, bunch, call>>

\* SettingsResource.post: the provider's update, its notification, and the
\* response, which is get's.
SettingsResource_post(request) ==
  /\ calls < MaxCalls
  /\ calls' = calls + 1
  /\ settings' = update(settings, ParsedArgs(request))
  /\ update_settings(settings')
  /\ op' = [NoOp EXCEPT !.name = "SettingsResource.post", !.args = request,
                        !.result = SettingsResponse(settings')]
  /\ UNCHANGED <<clock, previous_call, last_fired, fired, spc, body>>
  /\ UNCHANGED <<coreVars, questions, bunch, call>>

NextSettings ==
  \/ SettingsResource_get
  \/ \E request \in SettingsRequests : SettingsResource_post(request)

SpecSettings == Init /\ [][NextSettings]_vars

\* The resources of the REST API addressed to one row, applied to stored
\* tables.  A handler is one request: abort_if_doesnt_exist's lookup and
\* the handler's own transaction.
\*
\* abort_if_doesnt_exist(field_name, model): whether db.get finds the row.
Exists(table, id) == id \in DOMAIN table

\* The HTTP status of a request: abort(404) of the decorator, 200 of a
\* handler that returns, 500 of one that raises.
NotFound == 404
Ok == 200
ServerError == 500

\* AnswerResource.get
AnswerResource_get(answer_id) ==
  /\ calls < MaxCalls
  /\ calls' = calls + 1
  /\ op' = [NoOp EXCEPT !.name = "AnswerResource.get", !.id = answer_id,
                        !.result = IF Exists(answers, answer_id) THEN Ok ELSE NotFound]
  /\ UNCHANGED <<coreVars, schedVars, questions, bunch, call>>

\* AnswerResource.delete
AnswerResource_delete(answer_id) ==
  /\ calls < MaxCalls
  /\ calls' = calls + 1
  /\ IF Exists(answers, answer_id)
       THEN /\ answers' = [a \in DOMAIN answers \ {answer_id} |-> answers[a]]
            /\ op' = [NoOp EXCEPT !.name = "AnswerResource.delete", !.id = answer_id,
                                  !.result = Ok]
       ELSE /\ answers' = answers
            /\ op' = [NoOp EXCEPT !.name = "AnswerResource.delete", !.id = answer_id,
                                  !.result = NotFound]
  /\ UNCHANGED <<alive_sessions, local, now, nextToken, regs>>
  /\ UNCHANGED <<schedVars, questions, bunch, call>>

\* The arguments of PATCH /answer/<id> as the parser gives them (None for a
\* key the request leaves out), of a request that gives one at least.
PatchArgs ==
  {args \in [points : {None, 0, 1}, state : AnswerState \cup {NoneStr}] :
     args.points # None \/ args.state # NoneStr}

\* AnswerResource.patch: the UPDATE with the values the request gives.
AnswerResource_patch(answer_id, args) ==
  /\ calls < MaxCalls
  /\ calls' = calls + 1
  /\ IF Exists(answers, answer_id)
       THEN /\ answers' =
                 [answers EXCEPT ![answer_id] =
                    [@ EXCEPT !.points = IF args.points # None THEN args.points ELSE @,
                              !.state = IF args.state # NoneStr THEN args.state ELSE @]]
            /\ op' = [NoOp EXCEPT !.name = "AnswerResource.patch", !.id = answer_id,
                                  !.result = Ok]
       ELSE /\ answers' = answers
            /\ op' = [NoOp EXCEPT !.name = "AnswerResource.patch", !.id = answer_id,
                                  !.result = NotFound]
  /\ UNCHANGED <<alive_sessions, local, now, nextToken, regs>>
  /\ UNCHANGED <<schedVars, questions, bunch, call>>

\* QuestionResource.get
QuestionResource_get(question_id) ==
  /\ calls < MaxCalls
  /\ calls' = calls + 1
  /\ op' = [NoOp EXCEPT !.name = "QuestionResource.get", !.id = question_id,
                        !.result = IF Exists(questions, question_id) THEN Ok ELSE NotFound]
  /\ UNCHANGED <<coreVars, schedVars, questions, bunch, call>>

\* The arguments of POST /question/<id> that the model keeps: answer and
\* type (None for a key the request leaves out), whether the request gives
\* options, and the groups ({} for none given).  The request can give a
\* text, a subject, a level and an article_url as well.
UpdateArgs ==
  [answer : Texts \cup {NoneStr}, type : {TEST, OPEN, NoneStr}, options : BOOLEAN,
   groups : {{}, {"g2"}}]

\* A test that looks for the answer alone.
RecalculatesOnAnswerOnly(args) == args.answer # NoneStr

\* "options" in filtered_args or "answer" in filtered_args (line 98)
Recalculates(args) == args.options \/ args.answer # NoneStr

\* The question's row after the UPDATE of lines 88-90 and the replacement of
\* its groups (lines 92-96).
UpdatedQuestion(question, args) ==
  [question EXCEPT !.answer = IF args.answer # NoneStr THEN args.answer ELSE @,
                   !.type = IF args.type # NoneStr THEN args.type ELSE @,
                   !.groups = IF args.groups # {} THEN args.groups ELSE @]

\* The answers table after lines 98-101: calculate_points on every record
\* of the question, with the question as the session holds it after the
\* UPDATE (db_question, which the UPDATE has brought up to date).
RecalculatedAnswers(table, question_id, question) ==
  [a \in DOMAIN table |->
     IF table[a].question_id = question_id
       THEN calculate_points_with(question, table[a])
       ELSE table[a]]

\* QuestionResource.post
QuestionResource_post(question_id, args) ==
  /\ calls < MaxCalls
  /\ calls' = calls + 1
  /\ IF Exists(questions, question_id)
       THEN LET question == UpdatedQuestion(questions[question_id], args)
            IN /\ questions' = [questions EXCEPT ![question_id] = question]
               /\ answers' = IF Recalculates(args)
                               THEN RecalculatedAnswers(answers, question_id, question)
                               ELSE answers
               /\ op' = [NoOp EXCEPT !.name = "QuestionResource.post", !.id = question_id,
                                     !.table = answers, !.args = args, !.result = Ok]
       ELSE /\ questions' = questions
            /\ answers' = answers
            /\ op' = [NoOp EXCEPT !.name = "QuestionResource.post", !.id = question_id,
                                  !.result = NotFound]
  /\ UNCHANGED <<alive_sessions, local, now, nextToken, regs>>
  /\ UNCHANGED <<schedVars, bunch, call>>

\* QuestionResource.delete: the handler has no decorator; db.get gives None
\* for an id that is not in the table and db.delete(None) raises
\* UnmappedInstanceError.  The records of a deleted question stay.
QuestionResource_delete(question_id) ==
  /\ calls < MaxCalls
  /\ calls' = calls + 1
  /\ IF Exists(questions, question_id)
       THEN /\ questions' = [q \in DOMAIN questions \ {question_id} |-> questions[q]]
            /\ op' = [NoOp EXCEPT !.name = "QuestionResource.delete", !.id = question_id,
                                  !.result = Ok]
       ELSE /\ questions' = questions
            /\ op' = [NoOp EXCEPT !.name = "QuestionResource.delete", !.id = question_id,
                                  !.result = ServerError]
  /\ UNCHANGED <<coreVars, schedVars, bunch, call>>

\* The rows the tables are made of: rows of question 1 answered with the
\* right and with another answer, a row planned, a row sent, and a row of
\* question 2.
RestRowList ==
  << AnsweredRow(1, "p1", 0, 1),
     [AnsweredRow(1, "p1", 0, 0) EXCEPT !.person_answer = "2"],
     PlannedRow(1, "p1", 0),
     [PlannedRow(1, "p1", 0) EXCEPT !.state = TRANSFERRED],
     AnsweredRow(2, "p1", 0, 0) >>

RestTables ==
  {[k \in 1..Cardinality(S) |->
      RestRowList[CHOOSE i \in S : Cardinality({j \in S : j < i}) = k - 1]] :
     S \in {T \in SUBSET (1..Len(RestRowList)) : Cardinality(T) <= MaxStored}}

InitRest ==
  /\ answers \in RestTables
  /\ alive_sessions = <<>>
  /\ local = [p \in Procs |-> IdleLocal]
  /\ now = 0
  /\ nextToken = 1
  /\ regs = [t \in 1..MaxTokens |-> 0]
  /\ SchedInit
  /\ OtherInit

NextRest ==
  \/ \E answer_id \in 1..(MaxStored + 1) : AnswerResource_get(answer_id)
  \/ \E answer_id \in 1..(MaxStored + 1) : AnswerResource_delete(answer_id)
  \/ \E answer_id \in 1..(MaxStored + 1), args \in PatchArgs :
       AnswerResource_patch(answer_id, args)
  \/ \E question_id \in 1..(Len(Questions) + 1) : QuestionResource_get(question_id)
  \/ \E question_id \in 1..(Len(Questions) + 1), args \in UpdateArgs :
       QuestionResource_post(question_id, args)
  \/ \E question_id \in 1..(Len(Questions) + 1) : QuestionResource_delete(question_id)

SpecRest == InitRest /\ [][NextRest]_vars

\* The Schedule thread's cycles under a transport that delivers every
\* message, with the REST API planning records (for a question id the
\* questions table may not hold) and deleting questions meanwhile.
UnknownId == Len(Catalogue) + 1

\* requests.post answers with a message id for every message of the batch.
TransferDelivers(p) ==
  /\ TransferSend(p)
  /\ \A j \in 1..Len(local'[p].acks) : local'[p].acks[j] # None

\* The steps of the Schedule thread: run calls task again and again, and
\* task runs to its end.
CycleDelivers ==
  \/ TaskGen
  \/ TransferNext("disp")
  \/ TransferDelivers("disp")
  \/ TransferMap("disp")
  \/ TransferMark("disp")

InitDelivery ==
  /\ CoreInit
  /\ SchedInit
  /\ calls = 0
  /\ questions = Catalogue
  /\ bunch = NoBunch
  /\ op = NoOp
  /\ call = NoCall

NextDelivery ==
  \/ CycleDelivers
  \/ \E person_id \in Persons, question_id \in {1, UnknownId} :
       AnswerListResource_post(person_id, question_id, 0)
  \/ \E question_id \in DOMAIN Catalogue : QuestionResource_delete(question_id)

\* The Schedule thread is a thread of its own whose loop never ends
\* (schedule.py, run), so its next step is taken whenever it stays possible.
SpecDelivery == InitDelivery /\ [][NextDelivery]_vars /\ WF_vars(CycleDelivers)

\* StatRandomGenerator.next_bunch in two steps, with the questions API
\* writing between them: the call loads the pool with one query (line 126)
\* and loads each question's groups when line 153 reads question.groups (the
\* relationship is loaded on access), so it sees the groups as they are
\* then.  The level is a column of the row the pool query loaded.
\*
\* The catalogues the calls run on: question 3 at the level next to the
\* person's target level, or FarLevel levels away.
FarLevel == 40

WeightCatalogues ==
  {[Catalogue EXCEPT ![3].level = l] : l \in {Catalogue[3].level, FarLevel}}

\* The rows the tables are made of: a row of question 3 planned far ahead
\* and stored first, rows p1 has answered with and without points, a row
\* of question 1 planned for the next tick, and a due row of question 3.
WeightRowList ==
  << PlannedRow(3, "p1", MaxTime), AnsweredRow(1, "p1", 0, 1),
     AnsweredRow(3, "p1", 0, 1), AnsweredRow(3, "p1", 0, 0),
     PlannedRow(1, "p1", 1) >>

WeightTables ==
  {[k \in 1..Cardinality(S) |->
      WeightRowList[CHOOSE i \in S : Cardinality({j \in S : j < i}) = k - 1]] :
     S \in {T \in SUBSET (1..Len(WeightRowList)) : Cardinality(T) <= MaxRows}}

\* next_bunch up to the pool (lines 120-132): it returns at once with count
\* due records or with an empty pool, and goes on to the weights otherwise.
StatQuery(person, count) ==
  /\ call = NoCall
  /\ calls < MaxCalls
  /\ calls' = calls + 1
  /\ \E planned \in _get_planned(person) :
       LET pool == _get_person_questions(person, planned)
       IN IF Len(planned) >= count \/ pool = {}
            THEN /\ bunch' = [generator |-> "StatRandomGenerator", person |-> person,
                              count |-> count, raised |-> FALSE,
                              items |-> AsRecords(SubSeq(planned, 1, Min({count, Len(planned)})))]
                 /\ call' = NoCall
            ELSE /\ call' = [person |-> person, count |-> count, planned |-> planned,
                             pool |-> pool]
                 /\ bunch' = bunch
  /\ UNCHANGED <<coreVars, schedVars, questions, op>>

\* The rest of next_bunch (lines 134-184): the weights, with the groups as
\* the questions table holds them now, and the draw.
StatWeigh ==
  /\ call # NoCall
  /\ LET size == Min({call.count - Len(call.planned), Cardinality(call.pool)})
     IN IF SelectionRaises(call.person, call.pool, size)
          THEN bunch' = [generator |-> "StatRandomGenerator", person |-> call.person,
                         count |-> call.count, raised |-> TRUE, items |-> <<>>]
          ELSE \E items \in select(call.person, call.planned, call.pool, call.count) :
                 bunch' = [generator |-> "StatRandomGenerator", person |-> call.person,
                           count |-> call.count, raised |-> FALSE, items |-> items]
  /\ call' = NoCall
  /\ UNCHANGED <<coreVars, schedVars, questions, op, calls>>

\* QuestionResource.post with groups alone: the question's associations are
\* deleted and the given ones stored (lines 79-96).
QuestionPost(q, groups) ==
  /\ calls < MaxCalls
  /\ calls' = calls + 1
  /\ q \in DOMAIN questions
  /\ questions' = [questions EXCEPT ![q].groups = groups]
  /\ UNCHANGED <<coreVars, schedVars, bunch, op, call>>


\* The tables, the catalogue and the time_period the calls meet.  POST
\* /settings/ stores any number of seconds as time_period, zero too.
InitWeights ==
  /\ answers \in WeightTables
  /\ alive_sessions = <<>>
  /\ local = [p \in Procs |-> IdleLocal]
  /\ now = 0
  /\ nextToken = 1
  /\ regs = [t \in 1..MaxTokens |-> 0]
  /\ clock = 0
  /\ previous_call = None
  /\ last_fired = None
  /\ fired = FALSE
  /\ spc = "sleep"
  /\ body = NoneStr
  /\ \E time_period \in 0..MaxPeriod :
       /\ settings = [default_settings EXCEPT !.time_period = time_period]
       /\ every = time_period
  /\ week_days = default_settings.week_days
  /\ from_time = default_settings.from_time
  /\ to_time = default_settings.to_time
  /\ calls = 0
  /\ questions \in WeightCatalogues
  /\ bunch = NoBunch
  /\ op = NoOp
  /\ call = NoCall

NextWeights ==
  \/ \E count \in 1..MaxCount : StatQuery("p1", count)
  \/ StatWeigh
  \/ \E q \in DOMAIN Catalogue, groups \in {{"g1"}, {"g2"}, {"g1", "g2"}} :
       QuestionPost(q, groups)
  \/ Tick

SpecWeights == InitWeights /\ [][NextWeights]_vars

\* ------------------------------------------------------------ claims

\* A step of request thread h that runs session.register_answer.
RegisterStep(h) == local[h].pc = "register" /\ local'[h].pc # "register"

\* C1: register_answer on a record whose stored state is already ANSWERED
\* fails with a Conflict error and leaves the record's points, person_answer,
\* answer_time and state as they were.
C1_RegisterOnAnsweredConflicts ==
  [][\A h \in Handlers :
       (RegisterStep(h) /\ answers[local[h].answer].state = ANSWERED)
         => /\ local'[h].exc = "Conflict"
            /\ answers'[local[h].answer] = answers[local[h].answer]]_vars

\* C2: a record's state never regresses: once ANSWERED it stays ANSWERED, and
\* once TRANSFERRED it never returns to NOT_ANSWERED.
C2_StateNeverRegresses ==
  [][\A a \in DOMAIN answers :
       /\ answers[a].state = ANSWERED => answers'[a].state = ANSWERED
       /\ answers[a].state = TRANSFERRED => answers'[a].state # NOT_ANSWERED]_vars

\* C3: of the inbound responses that carry one message id, sequentially or
\* in concurrent requests, at most one gets past the lookup and registers an
\* answer (so the record is scored once through that id); a request that
\* ended at the lookup ended with KeyError and status 500.
C3_TokenRegistersOnce ==
  /\ \A t \in 1..MaxTokens :
       regs[t] + Cardinality({h \in Handlers : /\ local[h].pc = "register"
                                               /\ local[h].token = t}) <= 1
  /\ \A h \in Handlers :
       (local[h].pc = "done" /\ local[h].token # None)
         => local[h].exc = "KeyError" /\ HttpStatus(h) = 500

\* C3's case: one request holds the entry of message id t and has yet to
\* register, and the other request, with the same id, has ended with KeyError.
C3_Witness ==
  \E t \in 1..MaxTokens : \E h, g \in Handlers :
    /\ h # g
    /\ local[h].pc = "register" /\ local[h].token = t
    /\ local[g].pc = "done" /\ local[g].token = t /\ local[g].exc = "KeyError"

\* A step of thread p.
StepOf(p) == local'[p] # local[p]

\* The positions of an acknowledgement list whose message id is not None.
Sent(acks) == {j \in 1..Len(acks) : acks[j] # None}

\* C4: after the send of a batch, at every position whose message id is not
\* None transfer stores exactly the entry (message id -> the session and
\* record sent at that position) and then sets that record to TRANSFERRED; at
\* a position whose message id is None it stores no entry and leaves the
\* record alone; when transfer returns, the entries it stored and the records
\* it marked are as many as the message ids that are not None.
C4_PositionalCorrelation ==
  [][\A p \in Procs :
       /\ (local[p].pc \in {"send", "map"} /\ local'[p].pc = "mark")
            => LET i == local'[p].i
                   acks == local'[p].acks
                   rel == local'[p].rel
               IN /\ rel = local[p].rel /\ Len(acks) = Len(rel)
                  /\ acks[i] # None
                  /\ acks[i] \notin DOMAIN alive_sessions
                  /\ DOMAIN alive_sessions' = DOMAIN alive_sessions \cup {acks[i]}
                  /\ alive_sessions'[acks[i]] = rel[i]
                  /\ \A t \in DOMAIN alive_sessions : alive_sessions'[t] = alive_sessions[t]
                  /\ local[p].pc = "send" => \A j \in 1..(i - 1) : acks[j] = None
                  /\ answers' = answers
       /\ (local[p].pc = "mark" /\ StepOf(p))
            => LET i == local[p].i
                   a == local[p].rel[i].answer
               IN /\ local[p].acks[i] # None
                  /\ answers'[a].state = TRANSFERRED
                  /\ \A b \in DOMAIN answers \ {a} : answers'[b] = answers[b]
                  /\ alive_sessions' = alive_sessions
                  /\ \A j \in (i + 1)..Len(local[p].acks) :
                       (local'[p].pc = "done" \/ j < local'[p].i) => local[p].acks[j] = None
       /\ (local[p].pc \in {"send", "map", "mark"} /\ StepOf(p) /\ local'[p].pc # "mark")
            => alive_sessions' = alive_sessions
       /\ (local[p].pc \in {"send", "map"} /\ StepOf(p))
            => answers' = answers
       /\ (local[p].pc \in {"send", "mark"} /\ local'[p].pc = "done"
           /\ local'[p].exc = NoneStr)
            => /\ Len(local'[p].acks) = Len(local'[p].rel)
               /\ local'[p].added = Cardinality(Sent(local'[p].acks))
               /\ local'[p].marked = Cardinality(Sent(local'[p].acks))]_vars

\* C4's case: a batch of two was acknowledged with (None, t); transfer has
\* returned, the table maps t to the second item, whose record is
\* TRANSFERRED, and the first item's record is still NOT_ANSWERED.
C4_Witness ==
  \E p \in Procs :
    LET me == local[p]
    IN /\ me.pc = "done" /\ me.exc = NoneStr
       /\ Len(me.acks) = 2 /\ me.acks[1] = None /\ me.acks[2] # None
       /\ me.acks[2] \in DOMAIN alive_sessions
       /\ alive_sessions[me.acks[2]] = me.rel[2]
       /\ answers[me.rel[2].answer].state = TRANSFERRED
       /\ answers[me.rel[1].answer].state = NOT_ANSWERED
       /\ me.added = 1 /\ me.marked = 1

\* A step in which request thread h receives a BUTTON or REPLY answer: the
\* thread was at rest and now holds the answer's message id.
ReceiveStep(h) ==
  /\ local[h].pc \in {"idle", "done"}
  /\ StepOf(h)
  /\ local'[h].token # None

\* C5: an inbound response whose message id is not in the table ends the
\* request with KeyError (status 500, not 200), changes and creates no
\* AnswerRecord and leaves the table as it was; and a request ends with
\* KeyError in no other case.
C5_UnknownTokenRaises ==
  [][\A h \in Handlers :
       /\ (ReceiveStep(h) /\ local'[h].token \notin DOMAIN alive_sessions)
            => /\ local'[h].pc = "done"
               /\ local'[h].exc = "KeyError"
               /\ HttpStatus(h)' = 500
               /\ answers' = answers
               /\ alive_sessions' = alive_sessions
               /\ regs' = regs
       /\ (StepOf(h) /\ local'[h].exc = "KeyError")
            => /\ ReceiveStep(h)
               /\ local'[h].token \notin DOMAIN alive_sessions]_vars

\* C5's case: an answer was registered through message id t, and a later
\* request with the same, now consumed, id has ended with KeyError.
C5_Witness ==
  \E h \in Handlers :
    /\ local[h].pc = "done" /\ local[h].exc = "KeyError"
    /\ regs[local[h].token] = 1
    /\ local[h].token \notin DOMAIN alive_sessions

\* C6: accesses to the table exclude each other: while a transfer is between
\* storing an entry and marking its record as transferred no request holds
\* that entry, and a request is never matched against an entry whose record
\* is not yet marked as handed to the transport.
C6_NoHalfRegisteredMatch ==
  \A h \in Handlers :
    local[h].pc = "register"
      => /\ answers[local[h].answer].state # NOT_ANSWERED
         /\ \A p \in Procs :
              local[p].pc = "mark" => local[p].acks[local[p].i] # local[h].token

\* C7: the transition to ANSWERED is only ever taken from TRANSFERRED.
C7_AnsweredOnlyFromTransferred ==
  [][\A a \in DOMAIN answers :
       (answers'[a].state = ANSWERED /\ answers[a].state # ANSWERED)
         => answers[a].state = TRANSFERRED]_vars

\* C8: mark_question_as_transferred applied to a NOT_ANSWERED record leaves
\* it TRANSFERRED, with ask_time set to now only if it was unset and every
\* other field as it was; applied again, it leaves the record exactly as the
\* first application left it.
C8_MarkTransferredIdempotent ==
  [][calls' = calls + 1
       => /\ answers[1].state = NOT_ANSWERED
               => /\ answers'[1].state = TRANSFERRED
                  /\ answers'[1].ask_time =
                       IF answers[1].ask_time = None THEN now ELSE answers[1].ask_time
                  /\ answers'[1] = [answers[1] EXCEPT !.state = answers'[1].state,
                                                      !.ask_time = answers'[1].ask_time]
          /\ calls >= 1 => answers' = answers]_vars

\* C8's case: the method was applied twice, with time passing before the
\* first application, to a row without ask_time: the row is TRANSFERRED and
\* its ask_time is the time of the first application.
C8_Witness ==
  /\ calls = 2
  /\ answers[1].state = TRANSFERRED
  /\ answers[1].ask_time = 1
  /\ now = 1

\* C9: a pass of the loop calls task() only if the time of day is within
\* [from_time, to_time], the weekday is in week_days, and no cycle has run
\* before or now >= previous_call + period (whether previous_call is read as
\* the variable or as the time of the last cycle that ran).
C9_FiresOnlyWhenGatesHold ==
  [][(clock' # clock /\ fired')
       => /\ from_time <= TimeOfDay(clock') /\ TimeOfDay(clock') <= to_time
          /\ Weekday(clock') \in week_days
          /\ last_fired = None \/ clock' >= last_fired + every
          /\ last_fired = None \/ clock' >= previous_call + every
          /\ last_fired' = clock']_vars

\* C9's case: a cycle fired under a window and a weekday set that exclude
\* other ticks, a full period after the cycle before it.
C9_Witness ==
  /\ fired /\ last_fired = clock
  /\ week_days = {1, 2} /\ from_time = 1 /\ to_time = 1
  /\ every = 3 /\ clock = 7

\* C10: a cycle fires at every tick at which the time of day is within the
\* window, the weekday is allowed and no cycle has fired yet or
\* now >= t_last + period, t_last being the tick of the last cycle that
\* fired; and a tick that fires no cycle leaves previous_call unchanged.
C10_FiresWheneverGatesHold ==
  [][clock' # clock
       => /\ (/\ from_time <= TimeOfDay(clock') /\ TimeOfDay(clock') <= to_time
              /\ Weekday(clock') \in week_days
              /\ last_fired = None \/ clock' >= last_fired + every)
                => fired'
          /\ ~fired' => previous_call' = previous_call]_vars

\* C11: when a cycle fires at tick t, previous_call is t before the body
\* starts, throughout the body and after the body has returned or raised; and
\* after a cycle fired at t no cycle fires at a tick earlier than t + period,
\* whether the body failed or not.
C11_PreviousCallSetBeforeBody ==
  [][/\ spc' \in {"task", "after"} => previous_call' = clock' /\ last_fired' = clock'
     /\ (spc = "after" /\ spc' = "sleep")
          => body \in BodyOutcomes /\ previous_call' = clock' /\ last_fired' = clock'
     /\ (clock' # clock /\ fired')
          => last_fired = None \/ clock' >= last_fired + every]_vars

\* C11's case: a cycle fired, its body raised, and the next tick, less than
\* a period later, fired nothing and left previous_call at the cycle's time.
C11_Witness ==
  /\ body = "raised" /\ spc = "sleep"
  /\ last_fired # None /\ clock = last_fired + 1 /\ every = 2
  /\ ~fired /\ previous_call = last_fired

\* C14: a failing cycle body never ends the loop: the Schedule thread goes on
\* to line 50 and to its sleep, and the next tick at which the window, the
\* weekday and the period since previous_call allow it fires a new cycle.
C14_LoopSurvivesBodyFailure ==
  [][/\ spc' # "dead"
     /\ (spc = "task" /\ body' = "raised" /\ spc' # spc) => spc' = "after"
     /\ (body = "raised" /\ spc = "after" /\ spc' # spc) => spc' = "sleep"
     /\ (/\ body = "raised" /\ spc = "sleep" /\ clock' # clock
         /\ from_time <= TimeOfDay(clock') /\ TimeOfDay(clock') <= to_time
         /\ Weekday(clock') \in week_days
         /\ clock' >= previous_call + every)
          => fired' /\ spc' = "task"]_vars

\* C14's case: a cycle whose body raised was followed, a period later, by a
\* tick that fired the next cycle.
C14_Witness ==
  /\ body = "raised" /\ spc = "task" /\ fired
  /\ clock = 4 /\ every = 2 /\ week_days = {1, 2}

\* C12: with from_time or to_time unset the time-of-day test restricts
\* nothing, with the weekday list unset the weekday test restricts nothing;
\* every tick under such settings is evaluated without error, and it fires
\* exactly when the tests that remain allow it.
C12_UnsetGatesUnrestricted ==
  [][clock' # clock
       => /\ spc' # "dead"
          /\ fired' <=>
               /\ \/ from_time = None \/ to_time = None
                  \/ (from_time <= TimeOfDay(clock') /\ TimeOfDay(clock') <= to_time)
               /\ week_days = {None} \/ Weekday(clock') \in week_days
               /\ previous_call = None \/ clock' >= previous_call + every]_vars

\* The steps of the Schedule thread's cycle: the loop of task, the loop of
\* transfer, and the step that ends the cycle.
TaskLoopStep ==
  local["disp"].pc \in {"idle", "done"} /\ local'["disp"] # local["disp"]
TransferLoopStep ==
  local["disp"].pc = "next" /\ local'["disp"].pc # "next"
CycleEndStep ==
  local'["disp"].pc = "done" /\ local'["disp"] # local["disp"]

\* Whether generate_questions leaves the person an item to deliver.
HasItem(person) ==
  generate_questions(person) # {} /\ <<>> \notin generate_questions(person)

\* C13: an exception raised while one person of the cycle is processed does
\* not keep the others out: every person whose own processing raises nothing
\* and who has an item to deliver gets a session with that item handed to
\* transfer, and transfer puts its record into the batch.
C13_OtherPersonsStillProcessed ==
  [][/\ TaskLoopStep
          => \A m \in 1..Len(People) :
               HasItem(People[m])
                 => /\ local'["disp"].pc = "next"
                    /\ \E n \in 1..Len(local'["disp"].sessions) :
                         /\ local'["disp"].sessions[n].person = People[m]
                         /\ local'["disp"].sessions[n].questions # <<>>
     /\ TransferLoopStep
          => \A n \in 1..Len(local["disp"].sessions) :
               local["disp"].sessions[n].questions # <<>>
                 => \E k \in 1..Len(local'["disp"].rel) :
                      local'["disp"].rel[k].person = local["disp"].sessions[n].person]_vars

\* C15: in every cycle next_question is called exactly once for each known
\* person, the batch holds one record for each person whose next_question
\* gave one and none for the others, and the transport is called once for a
\* batch that is not empty and not at all for an empty one.
C15_OneQuestionPerPersonOneSend ==
  [][/\ TransferLoopStep
          => /\ local'["disp"].asked = People
             /\ \A n \in 1..Len(local["disp"].sessions) :
                  Cardinality({k \in 1..Len(local'["disp"].rel) :
                                 local'["disp"].rel[k].person = local["disp"].sessions[n].person})
                    = IF local["disp"].sessions[n].questions # <<>> THEN 1 ELSE 0
     /\ CycleEndStep
          => /\ local'["disp"].asked = People
             /\ local'["disp"].sends = IF local'["disp"].rel = <<>> THEN 0 ELSE 1]_vars

\* C16: a call of next_bunch(person, count) that returns, returns at most
\* count items, with either generator.
C16_AtMostCount ==
  Len(bunch.items) <= bunch.count

\* C16's case: each generator was asked for two items of a person with one
\* due record and a pool of two questions; the last call returned the due
\* record and one question.
C16_Witness ==
  /\ calls = 2 /\ bunch.count = 2 /\ ~bunch.raised
  /\ Len(bunch.items) = 2
  /\ bunch.items[1].kind = "A" /\ bunch.items[2].kind = "Q"
  /\ Cardinality({q \in DOMAIN questions :
                    \E pg \in PersonGroups[bunch.person] : pg[1] \in questions[q].groups}) = 2

\* C17: in the list one call returns, no bare Question has the question id
\* of a returned due record, and the bare Questions are pairwise distinct.
C17_NoDuplicateQuestions ==
  \A i, j \in 1..Len(bunch.items) :
    /\ (bunch.items[i].kind = "Q" /\ bunch.items[j].kind = "A")
         => bunch.items[i].id # answers[bunch.items[j].id].question_id
    /\ (bunch.items[i].kind = "Q" /\ bunch.items[j].kind = "Q" /\ i # j)
         => bunch.items[i].id # bunch.items[j].id

\* C17's case: asked for three items, the call returned the due record of
\* question 1 and then question 3 alone, question 1 being in the person's
\* groups as well.
C17_Witness ==
  /\ bunch.count = 3 /\ bunch.person = "p1" /\ ~bunch.raised
  /\ Len(bunch.items) = 2
  /\ bunch.items[1].kind = "A" /\ answers[bunch.items[1].id].question_id = 1
  /\ bunch.items[2] = [kind |-> "Q", id |-> 3]

\* The person's due records: NOT_ANSWERED rows with ask_time up to now.
DueOf(person) ==
  {a \in DOMAIN answers : /\ answers[a].person_id = person
                          /\ answers[a].state = NOT_ANSWERED
                          /\ answers[a].ask_time <= now}

\* Whether the first n items are n distinct due records of the person in
\* ascending ask_time order, none of them later than a due record left out.
DuePrefix(items, n, person) ==
  /\ Len(items) >= n
  /\ \A i \in 1..n : items[i].kind = "A" /\ items[i].id \in DueOf(person)
  /\ \A i, j \in 1..n : i # j => items[i].id # items[j].id
  /\ \A i, j \in 1..n : i < j => answers[items[i].id].ask_time <= answers[items[j].id].ask_time
  /\ \A i \in 1..n : \A a \in DueOf(person) \ {items[k].id : k \in 1..n} :
       answers[items[i].id].ask_time <= answers[a].ask_time

\* C18: with at least count due records, next_bunch returns exactly the
\* first count of them in ascending ask_time order and nothing else; it
\* makes no fresh selection, so it returns even where a selection from the
\* person's pool would raise.
C18_DueRecordsFirst ==
  [][(calls' = calls + 1 /\ Cardinality(DueOf(bunch'.person)) >= bunch'.count)
       => /\ ~bunch'.raised
          /\ Len(bunch'.items) = bunch'.count
          /\ DuePrefix(bunch'.items, bunch'.count, bunch'.person)]_vars

\* C18's case: the statistical generator, asked for two items of a person
\* with two due records of different ask_time, returned them in ask_time
\* order, on a table where asking for three raises.
C18_Witness ==
  /\ bunch.generator = "StatRandomGenerator" /\ bunch.count = 2 /\ ~bunch.raised
  /\ Len(bunch.items) = 2
  /\ bunch.items[1].kind = "A" /\ bunch.items[2].kind = "A"
  /\ answers[bunch.items[1].id].ask_time < answers[bunch.items[2].id].ask_time
  /\ bunch.items[1].id > bunch.items[2].id
  /\ Cardinality(DueOf(bunch.person)) = 2
  /\ NextBunchRaises(bunch.person, 3)

\* The person's eligible pool: the questions of a group of the person whose
\* id is not the question id of a due record.
PoolOf(person) ==
  {q \in DOMAIN questions :
     /\ \E pg \in PersonGroups[person] : pg[1] \in questions[q].groups
     /\ \A a \in DueOf(person) : answers[a].question_id # q}

\* C19: with fewer than count due records, next_bunch returns all of them in
\* ascending ask_time order, followed by exactly min(count - |due|, |pool|)
\* distinct questions of the eligible pool; with an empty pool it returns the
\* due records alone.  It returns in every case.
C19_DueThenFreshFromPool ==
  [][(calls' = calls + 1 /\ Cardinality(DueOf(bunch'.person)) < bunch'.count)
       => LET person == bunch'.person
              items == bunch'.items
              d == Cardinality(DueOf(person))
              fresh == IF bunch'.count - d <= Cardinality(PoolOf(person))
                         THEN bunch'.count - d ELSE Cardinality(PoolOf(person))
          IN /\ ~bunch'.raised
             /\ DuePrefix(items, d, person)
             /\ Len(items) = d + fresh
             /\ \A i \in (d + 1)..Len(items) :
                  items[i].kind = "Q" /\ items[i].id \in PoolOf(person)
             /\ \A i, j \in (d + 1)..Len(items) : i # j => items[i].id # items[j].id]_vars

\* C20: every bare Question next_bunch returns belongs to a group the person
\* is a member of.
C20_FreshQuestionsShareGroup ==
  \A i \in 1..Len(bunch.items) :
    bunch.items[i].kind = "Q"
      => \E pg \in PersonGroups[bunch.person] :
           pg[1] \in questions[bunch.items[i].id].groups

\* C20's case: asked for three items of person p1, who has no due record,
\* the call returned the two questions of p1's group and not question 2.
C20_Witness ==
  /\ bunch.person = "p1" /\ bunch.count = 3 /\ ~bunch.raised
  /\ Len(bunch.items) = 2
  /\ {bunch.items[1], bunch.items[2]} = {[kind |-> "Q", id |-> 1], [kind |-> "Q", id |-> 3]}
  /\ 2 \in DOMAIN questions


\* A step that is a call of session.next_question().
NextQuestionStep == calls' # calls /\ op'.name = "next_question"

\* C21: next_question pops the head of the session's queue.  For a bare
\* Question it adds exactly one row, for that question and the session's
\* person, NOT_ANSWERED and asked now, and returns it; for an AnswerRecord
\* it returns that record and writes nothing; on an empty queue it returns
\* None and changes nothing.
C21_NextQuestionPopsHead ==
  [][NextQuestionStep =>
       LET session == local["disp"].sessions[1]
           queue == session.questions
           after == local'["disp"].sessions[1].questions
           current == local'["disp"].answer
       IN IF queue = <<>>
            THEN current = None /\ answers' = answers /\ after = <<>>
          ELSE IF queue[1].kind = "Q"
            THEN /\ after = Tail(queue)
                 /\ answers' = Append(answers,
                                      [question_id |-> queue[1].id,
                                       person_id |-> session.person,
                                       person_answer |-> NoneStr, answer_time |-> None,
                                       ask_time |-> now, state |-> NOT_ANSWERED,
                                       points |-> 0])
                 /\ current = Len(answers) + 1
          ELSE /\ after = Tail(queue)
               /\ answers' = answers
               /\ current = queue[1].id]_vars

\* next_question has popped a bare Question ahead of a stored record and
\* written its row.
C21_Witness ==
  /\ op.name = "next_question"
  /\ Len(op.queue) = 2
  /\ op.queue[1].kind = "Q"
  /\ op.queue[2].kind = "A"
  /\ local["disp"].sessions[1].questions = Tail(op.queue)
  /\ Len(answers) = Len(op.table) + 1
  /\ local["disp"].answer = Len(answers)
  /\ answers[Len(answers)].question_id = op.queue[1].id


\* The sessions in the dispatcher's hands whose queue starts with a bare
\* Question.
BareHeads(sessions) ==
  {n \in 1..Len(sessions) :
     sessions[n].questions # <<>> /\ sessions[n].questions[1].kind = "Q"}

\* C22: generate_questions, with the next_bunch under it, persists nothing:
\* the answers table with all its fields is the same after task's loop
\* over the persons; the table gets a new row only in transfer's calls of
\* next_question, one for each session whose queue starts with a bare
\* Question, for that question and person.
C22_GeneratePersistsNothing ==
  [][/\ TaskLoopStep => answers' = answers
     /\ Len(answers') # Len(answers) =>
          LET sessions == local["disp"].sessions
              added == [k \in 1..(Len(answers') - Len(answers)) |->
                          answers'[Len(answers) + k]]
          IN /\ TransferLoopStep
             /\ Len(answers') = Len(answers) + Cardinality(BareHeads(sessions))
             /\ SubSeq(answers', 1, Len(answers)) = answers
             /\ \A k \in DOMAIN added :
                  \E n \in BareHeads(sessions) :
                    /\ added[k].question_id = sessions[n].questions[1].id
                    /\ added[k].person_id = sessions[n].person
                    /\ added[k].state = NOT_ANSWERED]_vars

\* task's loop has queued a bare Question for a person, and the table the
\* cycle started from, which has no row of that person on that question,
\* is still the table.
C22_Witness ==
  /\ local["disp"].pc = "next"
  /\ \E n \in BareHeads(local["disp"].sessions) :
       LET s == local["disp"].sessions[n]
       IN \A a \in DOMAIN answers :
            ~(answers[a].question_id = s.questions[1].id /\ answers[a].person_id = s.person)
  /\ answers \in StoredTables
  /\ answers # <<>>


\* A step that is a call of Session.register_answer.
RegisterAnswerStep == calls' # calls /\ op'.name = "register_answer"

\* The points the scoring rule gives user_answer on question q.
Scored(q, user_answer) ==
  IF questions[q].type = TEST /\ user_answer = questions[q].answer THEN 1 ELSE 0

\* C23: register_answer on a record whose stored state is not ANSWERED
\* sets person_answer to the given answer, answer_time to now, state to
\* ANSWERED and the points to the recomputed ones, on the row as stored at
\* the call; question_id, person_id and ask_time stay, and so does every
\* other row.
C23_RegisterAnswerUpdatesRecord ==
  [][RegisterAnswerStep /\ answers[op'.id].state # ANSWERED =>
       /\ answers' = [answers EXCEPT ![op'.id] =
                        [question_id |-> answers[op'.id].question_id,
                         person_id |-> answers[op'.id].person_id,
                         ask_time |-> answers[op'.id].ask_time,
                         person_answer |-> op'.text,
                         answer_time |-> now,
                         state |-> ANSWERED,
                         points |-> Scored(answers[op'.id].question_id, op'.text)]]
       /\ op'.result = op'.id]_vars

\* A record that was TRANSFERRED has been registered at a later time with
\* the right answer of its TEST question.
C23_Witness ==
  /\ op.name = "register_answer"
  /\ op.table[op.id].state = TRANSFERRED
  /\ op.table[op.id].ask_time < now
  /\ questions[op.table[op.id].question_id].type = TEST
  /\ answers[op.id].state = ANSWERED
  /\ answers[op.id].person_answer = op.text
  /\ answers[op.id].answer_time = now
  /\ answers[op.id].points = 1

\* C24: the points register_answer leaves are 1 exactly when the question
\* is TEST and the answer equals the question's answer string, and 0 for
\* every other answer and for every answer to an OPEN question, whatever
\* points the record had before.
C24_ScoringRule ==
  [][RegisterAnswerStep =>
       LET q == answers[op'.id].question_id
       IN /\ answers'[op'.id].points \in {0, 1}
          /\ answers'[op'.id].points = 1 <=>
               (questions[q].type = TEST /\ op'.text = questions[q].answer)
          /\ questions[q].type = OPEN => answers'[op'.id].points = 0]_vars

\* A record of an OPEN question that held a point has been answered again
\* and holds none.
C24_Witness ==
  /\ op.name = "register_answer"
  /\ questions[op.table[op.id].question_id].type = OPEN
  /\ op.table[op.id].points = 1
  /\ answers[op.id].person_answer = op.text
  /\ answers[op.id].points = 0


\* Whether a pass of run's loop at t fires when the gates hold the values s.
GateWith(s, t) ==
  /\ s.from_time <= TimeOfDay(t) /\ TimeOfDay(t) <= s.to_time
  /\ previous_call = None \/ t >= previous_call + s.time_period
  /\ Weekday(t) \in s.week_days

ReplyStep(h) == local[h].pc = "reply" /\ local'[h].pc # "reply"

WeighStep == call # NoCall /\ call' = NoCall

\* Whether a question of the pool with points has no group in common with
\* the person when the weights are computed.
OverlapMissing(person, pool) ==
  \E q \in pool : points_sum(person, q) # 0 /\ TargetLevels(person, q) = {}

\* Whether every question of the pool with points was last asked in the
\* past (none of the person's rows for it is planned ahead).
AllPast(person, pool) ==
  \A q \in pool : points_sum(person, q) # 0 => Elapsed(LastAskTime(person, q)) > 0

\* C25: in the weighted selection every pool question without a weight of
\* its own gets, once per call, the weight (sum(S) + u * max(S)) / |pool|,
\* S being the weights the seen questions have and u the number of
\* questions without one, or 1 when S is empty; and that weight is never
\* zero.  Stated for the calls in which no record is planned ahead.
C25_UnseenGetIncreasedAverage ==
  [][WeighStep /\ ~WeightsRaise(call.person, call.pool) /\ AllPast(call.person, call.pool) =>
       LET person == call.person
           pool == call.pool
           S == with_val(person, pool)
           p == probabilities(person, pool)
       IN \A q \in pool \ S :
            /\ p[q] = IF S = {} THEN 1
                      ELSE (SumWeights(person, S)
                              + Cardinality(pool \ S) * MaxWeight(person, S))
                             \div Cardinality(pool)
            /\ p[q] # 0]_vars

\* C26: in the weighted selection every pool question has a strictly
\* positive weight, whatever the time since it was last asked, its points,
\* the elapsed periods and the distance of the levels, so the draw of
\* min(count - |due|, |pool|) distinct questions is always possible.
C26_WeightsStrictlyPositive ==
  [][WeighStep /\ ~WeightsRaise(call.person, call.pool) =>
       /\ \A q \in call.pool : probabilities(call.person, call.pool)[q] > 0
       /\ ~bunch'.raised
       /\ Len(bunch'.items) =
            Len(call.planned)
              + Min({call.count - Len(call.planned), Cardinality(call.pool)})]_vars

\* C27: the weighted next_bunch never raises because of a numeric edge
\* case: a question without points divides nothing by zero, and a question
\* whose computed weight is not finite gets the increased average, not
\* zero, and can be drawn.  Stated for the calls whose weights with a value
\* are all positive and whose questions all share a group with the person.
C27_NoRaiseOnNumericEdge ==
  [][/\ WeighStep
     /\ ~OverlapMissing(call.person, call.pool)
     /\ \A q \in with_val(call.person, call.pool) : Weight(call.person, q).v > 0
     => /\ ~bunch'.raised
        /\ \A q \in call.pool :
             Weight(call.person, q).nan
               => /\ probabilities(call.person, call.pool)[q]
                       = increased_avg(call.person, call.pool)
                  /\ q \in Drawable(probabilities(call.person, call.pool))]_vars

\* C28: for a pool question with points the target level is the largest
\* target level of the person's groups that are groups of the question,
\* and 0 when there is none; next_bunch does not fail when there is none.
\* Stated for the calls with a time_period that is not zero and no record
\* planned ahead.
C28_NoOverlapMeansLevelZero ==
  [][/\ WeighStep
     /\ OverlapMissing(call.person, call.pool)
     /\ ~PeriodIsZero
     /\ AllPast(call.person, call.pool)
     => ~bunch'.raised]_vars

\* C31: the loop of the Schedule thread stops cooperatively: a stop that
\* comes while a cycle is in flight lets the cycle run to its end (the
\* thread is still in task() after the step that brings the stop), and the
\* thread ends only between cycles.
C31_CooperativeStop ==
  [][(spc # "killed" /\ spc' = "killed") => spc # "task" /\ body' # "interrupted"]_vars

\* The step is a call of next_bunch.
BunchStep == calls' # calls /\ bunch'.generator # NoneStr

\* Whether the list holds record a with none but records before it.
ReturnedAsDue(items, a) ==
  \E n \in 1..Len(items) :
    /\ items[n] = [kind |-> "A", id |-> a]
    /\ \A m \in 1..n : items[m].kind = "A"

\* Whether the list is count due records, none asked later than record a.
FilledByEarlier(items, count, a) ==
  /\ Len(items) = count
  /\ \A n \in 1..Len(items) :
       /\ items[n].kind = "A"
       /\ answers[items[n].id].ask_time <= answers[a].ask_time

\* C32: a record planned through the answers API is stored NOT_ANSWERED;
\* while its ask_time is later than now no call of next_bunch returns it and
\* no transfer sends it; once its ask_time has come, a call of next_bunch
\* for its person returns it as a due record, ahead of every fresh question
\* (or returns count due records that are no later).
C32_PlannedRecordDueInTime ==
  [][/\ \A a \in DOMAIN answers' \ DOMAIN answers :
          /\ answers'[a].state = NOT_ANSWERED
          /\ answers'[a].person_answer = NoneStr
          /\ answers'[a].answer_time = None
     /\ \A p \in Procs : \A n \in 1..Len(local'[p].rel) :
          answers'[local'[p].rel[n].answer].ask_time <= now
     /\ BunchStep =>
          /\ \A n \in 1..Len(bunch'.items) :
               bunch'.items[n].kind = "A" => answers[bunch'.items[n].id].ask_time <= now
          /\ \A a \in DueIds(bunch'.person) :
               /\ ~bunch'.raised
               /\ \/ ReturnedAsDue(bunch'.items, a)
                  \/ FilledByEarlier(bunch'.items, bunch'.count, a)]_vars

\* The step is a request to one of the resources addressed to one row.
AnswerOps == {"AnswerResource.get", "AnswerResource.delete", "AnswerResource.patch"}
QuestionOps == {"QuestionResource.get", "QuestionResource.post", "QuestionResource.delete"}
RestStep == calls' # calls /\ op'.name \in AnswerOps \cup QuestionOps

\* Whether the request is addressed to a row that is not in its table.
AddressedToMissing ==
  \/ op'.name \in AnswerOps /\ ~Exists(answers, op'.id)
  \/ op'.name \in QuestionOps /\ ~Exists(questions, op'.id)

\* C33: a get, an update or a delete addressed to an AnswerRecord id or a
\* Question id that is not in the store answers 404 and leaves the store
\* as it is.
C33_MissingIdIsNotFound ==
  [][RestStep /\ AddressedToMissing =>
       /\ op'.result = NotFound
       /\ answers' = answers
       /\ questions' = questions]_vars

\* The step is an update of a question that is in the table.
UpdateStep == calls' # calls /\ op'.name = "QuestionResource.post" /\ op'.result = Ok

\* The score of an answer against a question: 1 for a TEST question whose
\* answer it equals, 0 otherwise.
ScoreAgainst(question, person_answer) ==
  IF question.type = TEST /\ question.answer = person_answer THEN 1 ELSE 0

\* Whether every record of question q has the score of its answer against
\* the question as the update leaves it.
Rescored(q) ==
  \A a \in DOMAIN answers :
    answers[a].question_id = q
      => answers'[a].points = ScoreAgainst(questions'[q], answers[a].person_answer)

\* Whether the update leaves every column but points of every record, and
\* every record of the other questions, as they were.
OnlyPointsOf(q) ==
  /\ DOMAIN answers' = DOMAIN answers
  /\ \A a \in DOMAIN answers :
       /\ answers'[a] = [answers[a] EXCEPT !.points = answers'[a].points]
       /\ answers[a].question_id # q => answers'[a] = answers[a]

\* C40 as stated: an update that changes the question's answer or its
\* options leaves every record of the question with the score of its
\* person_answer against the new answer, and nothing else of the records
\* changed; an update that changes neither leaves all points as they were.
C40_RescoreOnChange ==
  [][UpdateStep =>
       LET q == op'.id
           changes == op'.args.options \/ questions'[q].answer # questions[q].answer
       IN /\ OnlyPointsOf(q)
          /\ changes => Rescored(q)
          /\ ~changes => answers' = answers]_vars

\* C40, amended: an update that gives an answer or options (changed or not)
\* leaves every record of the question with the score of its person_answer
\* against the question as updated, and nothing else of the records
\* changed; an update that gives neither leaves all points as they were.
C40_RescoreWhenGiven ==
  [][UpdateStep =>
       LET q == op'.id
           given == op'.args.options \/ op'.args.answer # NoneStr
       IN /\ OnlyPointsOf(q)
          /\ given => Rescored(q)
          /\ ~given => answers' = answers]_vars

\* An update has given a question a new answer and changed the points of a
\* record.
C40_Witness ==
  /\ op.name = "QuestionResource.post"
  /\ op.result = Ok
  /\ op.args.answer # NoneStr
  /\ \E a \in DOMAIN answers : answers[a].points # op.table[a].points

\* The step is a request to the settings resource.
SettingsPostStep == calls' # calls /\ op'.name = "SettingsResource.post"
SettingsGetStep == calls' # calls /\ op'.name = "SettingsResource.get"

\* Whether the request gives all four keys.
GivesAll(request) ==
  /\ request.time_period # None
  /\ request.from_time # NoText
  /\ request.to_time # NoText
  /\ request.week_days # {None}

\* What a request holds for a key it leaves out.
Omitted == [time_period |-> None, from_time |-> NoText, to_time |-> NoText,
            week_days |-> {None}]

\* The value a key of the response has to have after the request: the
\* request's when it gives the key, the one of a read before it otherwise.
Expected(request, before, k) ==
  IF request[k] = Omitted[k] THEN SettingsResponse(before)[k] ELSE request[k]

\* The request's values as the service holds them: the period to the
\* nearest microsecond, the times in isoformat's format.
Canonical(request) ==
  [time_period |-> IF request.time_period # None
                     THEN total_seconds(timedelta(request.time_period)) ELSE None,
   from_time |-> IF request.from_time # NoText
                   THEN [request.from_time EXCEPT !.fmt = "HH:MM:SS"] ELSE NoText,
   to_time |-> IF request.to_time # NoText
                 THEN [request.to_time EXCEPT !.fmt = "HH:MM:SS"] ELSE NoText,
   week_days |-> request.week_days]

SettingsKeys == {"time_period", "from_time", "to_time", "week_days"}

\* C34 as stated: the response of an update and a read that follows it
\* return exactly the values the update gave, and the previous value for a
\* key it left out.
C34_SettingsRoundTrip ==
  [][/\ SettingsPostStep =>
          \A k \in SettingsKeys : op'.result[k] = Expected(op'.args, settings, k)
     /\ SettingsGetStep /\ op.name = "SettingsResource.post" /\ GivesAll(op.args) =>
          \A k \in SettingsKeys : op'.result[k] = op.args[k]]_vars

\* C34, amended: the response of an update and a read that follows it
\* return the values the update gave as the service holds them, the period
\* to the nearest microsecond and the times written as HH:MM:SS (exactly
\* the values given when they are given so), and the previous value for a
\* key it left out.
C34_SettingsRoundTripCanonical ==
  [][/\ SettingsPostStep =>
          \A k \in SettingsKeys :
            op'.result[k] = Expected(Canonical(op'.args), settings, k)
     /\ SettingsGetStep /\ op.name = "SettingsResource.post" /\ GivesAll(op.args) =>
          /\ op'.result = Canonical(op.args)
          /\ Canonical(op.args) = op.args => op'.result = op.args]_vars

\* A read has followed an update that gave all four keys, the period and
\* the times as the service holds them, and left one of them changed.
C34_Witness ==
  /\ op.name = "SettingsResource.get"
  /\ calls = 2
  /\ op.result # SettingsResponse(default_settings)
  /\ op.result.time_period = Resolution * MaxPeriod
  /\ op.result.week_days = {0}

\* C35: at every moment, in every interleaving of the Schedule thread's
\* cycle with the continuation of an inbound answer, each AnswerRecord is
\* referenced by at most one entry of alive_sessions.
C35_OneEntryPerRecord ==
  \A t1 \in DOMAIN alive_sessions, t2 \in DOMAIN alive_sessions :
    alive_sessions[t1].answer = alive_sessions[t2].answer => t1 = t2

\* The items of the batch of a finished cycle that the transport did not
\* take: all of them when the post raised, those acknowledged with None
\* otherwise.
FailedItems(me) ==
  IF me.pc # "done" THEN {}
  ELSE {me.rel[j] : j \in {k \in 1..Len(me.rel) :
                             \/ me.exc = "RequestException"
                             \/ me.acks # <<>> /\ me.acks[k] = None}}

\* Whether the item's record is the oldest due record of its person.
OldestDue(item) ==
  \A a \in DueIds(item.person) \ {item.answer} :
    answers[a].ask_time > answers[item.answer].ask_time

\* C36: an item whose send failed or was acknowledged with a null message
\* id leaves its record NOT_ANSWERED and without an entry in alive_sessions;
\* the next cycle hands that record, the oldest due record of its person,
\* to transfer as the person's item, and transfer puts it into the batch
\* without writing a second record for the person.
C36_FailedSendRetried ==
  [][/\ CycleEndStep
          => \A item \in FailedItems(local'["disp"]) :
               /\ answers'[item.answer].state = NOT_ANSWERED
               /\ \A t \in DOMAIN alive_sessions' :
                    alive_sessions'[t].answer # item.answer
     /\ TaskLoopStep
          => \A item \in FailedItems(local["disp"]) :
               OldestDue(item)
                 => \E n \in 1..Len(local'["disp"].sessions) :
                      local'["disp"].sessions[n] =
                        [person |-> item.person,
                         questions |-> <<[kind |-> "A", id |-> item.answer]>>]
     /\ TransferLoopStep
          => \A n \in 1..Len(local["disp"].sessions) :
               LET session == local["disp"].sessions[n]
               IN session.questions # <<>> /\ session.questions[1].kind = "A"
                    => /\ \E k \in 1..Len(local'["disp"].rel) :
                            local'["disp"].rel[k] =
                              [person |-> session.person,
                               answer |-> session.questions[1].id]
                       /\ \A a \in DOMAIN answers' \ DOMAIN answers :
                            answers'[a].person_id # session.person]_vars

\* The person has something to be sent: an eligible pool that is not empty,
\* or a due record whose question exists.
Eligible(person) ==
  \/ PoolOf(person) # {}
  \/ \E a \in DueOf(person) : answers[a].question_id \in DOMAIN questions

\* The cycle's batch has been sent with a message for the person.
DeliveredTo(person) ==
  LET me == local["disp"]
  IN /\ me.pc \in {"map", "mark", "done"}
     /\ \E k \in 1..Len(me.acks) : me.acks[k] # None /\ me.rel[k].person = person

\* The cycle has come to the end of the message ids or of the rows the
\* model holds.
OutOfBounds ==
  LET me == local["disp"]
  IN \/ me.pc = "send" /\ nextToken + Len(me.rel) - 1 > MaxTokens
     \/ /\ me.pc = "next"
        /\ Len(Collect(me.sessions, 1, answers, <<>>, now).table) > MaxAnswers
        /\ Len(Collect(me.sessions, 1, answers, <<>>, now).table) > Len(answers)

\* C37: with a transport that delivers and cycles that keep firing, a person
\* who has an eligible pool that is not empty or a due record whose question
\* exists is eventually sent a question (while the person stays so); a due
\* record whose question does not exist does not keep the person without
\* deliveries for ever.
C37_EligiblePersonEventuallySent ==
  \A person \in Persons :
    Eligible(person) ~> (DeliveredTo(person) \/ ~Eligible(person) \/ OutOfBounds)

\* C38: in every state the service reaches through next_question,
\* mark_question_as_transferred and register_answer, a record in state
\* ANSWERED has a person_answer and an answer_time that is not before its
\* ask_time, and a record in state NOT_ANSWERED or TRANSFERRED has no
\* person_answer, no answer_time and no points.
C38_RecordFieldsMatchState ==
  \A a \in DOMAIN answers :
    IF answers[a].state = ANSWERED
      THEN /\ answers[a].person_answer # NoneStr
           /\ answers[a].answer_time # None
           /\ answers[a].answer_time >= answers[a].ask_time
      ELSE /\ answers[a].person_answer = NoneStr
           /\ answers[a].answer_time = None
           /\ answers[a].points = 0

\* A step of the request thread h.
HandlerStep(h) == local'[h] # local[h]

\* The step is a whole request with a MESSAGE answer, which carries no
\* message id.
MessageStep(h) ==
  /\ local[h].pc \in {"idle", "done"}
  /\ local'[h].pc = "done"
  /\ local'[h].token = None

\* C39: a request to the webhook ends without an exception for every pair
\* of answer type (BUTTON, MESSAGE, REPLY) and session state (PENDING, OPEN,
\* CLOSE) unless the message id it carries is not in alive_sessions (or the
\* transport fails), and a request with a MESSAGE answer leaves
\* alive_sessions and the answers table as they were.
C39_HandlerCompletes ==
  [][\A h \in Handlers :
       /\ HandlerStep(h) /\ local'[h].exc # NoneStr
            => \/ /\ local'[h].exc = "KeyError"
                  /\ local'[h].token \notin DOMAIN alive_sessions
               \/ local'[h].exc = "RequestException"
       /\ HandlerStep(h) /\ MessageStep(h)
            => answers' = answers /\ alive_sessions' = alive_sessions]_vars

====
